---- MODULE Spec2Model ----
(***************************************************************************)
(* Verification model of the apply worker (OmMistry25/apply).              *)
(*                                                                         *)
(* Part I  - task runner: POST /api/runs/start, main loop, claimRun,       *)
(*           processRun, failRun, updateJobStatus                          *)
(*           (services/worker/src/runner.ts, index.ts, api/runs/start).    *)
(* Part II - site adapters: GreenhouseAdapter.apply, LeverAdapter.apply,   *)
(*           detectUnfilledRequiredFields (runner/adapters/*.ts).          *)
(***************************************************************************)
EXTENDS Integers, Sequences, FiniteSets, TLC

(***************************************************************************)
(* Bounds of the model.                                                    *)
(***************************************************************************)
NumWorkers == 2
MaxRuns == 1
NumJobs == 1
NumRateCallers == 2
MaxTime == 4
MaxCalls == 3
MaxAttempts == 4
MaxContexts == 2
MaxQueued == 3
MaxErrorEls == 4
MaxPathLen == 4
MaxParams == 3
NumTabs == 2
MaxStarts == 2
NumFields == 3

Workers == 1..NumWorkers
RunIds == 1..MaxRuns
JobIds == 1..NumJobs

Null == "null"

VARIABLES
  runs,          \* table application_runs: sequence of rows, row id = index
  jobs,          \* table job_targets: JobIds -> [status]
  globalDryRun,  \* WORKER_CONFIG.globalDryRun
  webPc,         \* POST /api/runs/start: position of the request in flight
  webJob,        \* POST /api/runs/start: jobTargetId of the request
  pc,            \* per worker: position in main / claimRun / processRun
  fetched,       \* per worker: runs[0] of claimRun's select (0 = none)
  run,           \* per worker: the Run row claimRun returned (a snapshot)
  result,        \* per worker: the ApplyResult applyJob returned
  failCode,      \* per worker: errorCode argument of the pending failRun call
  pendingJob,    \* per worker: status the next updateJobStatus call writes
  threw,         \* per worker: an exception reached processRun's catch
  claimCount     \* history: RunIds -> number of claimRun updates that took the row

VARIABLES
  adapter,       \* which ATSAdapter applyJob resolved: "greenhouse" | "lever"
  ctxDryRun,     \* ApplyContext.dryRun
  entry,         \* the loaded page: "form" | "button_no_form" | "nothing"
  form,          \* the form's controls, in DOM order
  apc,           \* position of apply(ctx) in its step sequence
  filledCount,   \* local fieldsFilledCount of apply
  fieldsFailed,  \* local fieldsFailed of apply (labels = control indices)
  resumeSet,     \* the page: a file was attached to the resume input
  submitClicked, \* the page: the submit control was clicked
  aThrew,        \* an exception reached apply's catch block
  aResult        \* the ApplyResult apply returned

VARIABLES
  jpc,              \* position of applyJob(input) in its step sequence
  jSupported,       \* adapters.find(a => a.supports(input.jobUrl)) found one
  jDryRun,          \* input.dryRun
  usingBrowserbase, \* isUsingBrowserbase()
  enableArtifacts,  \* WORKER_CONFIG.enableArtifacts
  uploadArtifactsOn,\* WORKER_CONFIG.uploadArtifacts
  context,          \* local `context` of applyJob is not null
  openContexts,     \* browser contexts created and not closed
  tempResumeDir,    \* local `tempResumeDir` of applyJob is not null
  resumeDirOnDisk,  \* the temp resume directory exists
  artifactCollector,\* local `artifactCollector` of applyJob is not null
  artifactDirOnDisk,\* the collector's temp directory exists
  collectorShots,   \* a screenshot file is in the collector's directory
  adapterShots,     \* a screenshot file of takeScreenshot is in os.tmpdir()
  slotsTaken,       \* requests the rate limiter has counted
  gotoCount,        \* history: calls of page.goto(input.jobUrl)
  preflight,        \* what the first detectBlockingCondition(page) returned
  applyInvoked,     \* adapter.apply(applyContext) was called
  jThrew,           \* an exception reached applyJob's catch block
  jResult,          \* the ApplyResult applyJob is returning
  jOutcome          \* "pending" | "returned" | "rejected"

jobVars == <<jpc, jSupported, jDryRun, usingBrowserbase, enableArtifacts,
             uploadArtifactsOn, context, openContexts, tempResumeDir,
             resumeDirOnDisk, artifactCollector, artifactDirOnDisk,
             collectorShots, adapterShots, slotsTaken, gotoCount, preflight, applyInvoked, jThrew, jResult, jOutcome>>

VARIABLES
  rNow,           \* Date.now(), in units of the rate limits
  defaultDelayMs, \* RateLimiter.defaultDelayMs
  domainLimits,   \* RateLimiter.domainLimits: domain -> ms (NoLimit = no key)
  entries,        \* RateLimiter.entries: domain -> entry (NoEntry = no key)
  rpc,            \* per caller: "idle" | "sleeping" (inside waitForSlot)
  rDomain,        \* per caller: `domain` of its latest waitForSlot call
  rWake,          \* per caller: instant its sleep(waitTime) is due
  rSeen,          \* per caller: `entry` as read before the sleep
  rReturnedAt,    \* per caller: instant its latest call returned (-1 = none)
  rStarted        \* history: waitForSlot calls made so far

rateVars == <<rNow, defaultDelayMs, domainLimits, entries, rpc, rDomain, rWake,
              rSeen, rReturnedAt, rStarted>>

VARIABLES
  tpc,          \* withRetry: "try" | "sleeping" | "returned" | "thrown"
  retryConfig,  \* the merged {...DEFAULT_RETRY_CONFIG, ...config}
  attempt,      \* the loop variable
  lastError,    \* `lastError`
  invocations,  \* history: number of calls of operation()
  sleeps,       \* history: the delays slept, in order
  history       \* history: what each call of operation() did

retryVars == <<tpc, retryConfig, attempt, lastError, invocations, sleeps, history>>

VARIABLES
  contextCount,    \* playwright.ts `contextCount`
  liveContexts,    \* browser contexts that exist and are not closed
  localBrowser,    \* `localBrowser` is set
  useBrowserbase,  \* shouldUseBrowserbase()
  cpc              \* per createContext caller: where it is

poolVars == <<contextCount, liveContexts, localBrowser, useBrowserbase, cpc>>

VARIABLES
  signalled,   \* SIGTERM or SIGINT has been delivered to the process
  spc,         \* the `shutdown` handler: "none" | "closing" | "cleanup" | "exited"
  mpc,         \* main()'s loop: "poll" | "claiming" | "open" | "processing" | "sleeping"
  queued       \* queued runs left in the store for this worker to claim

shutVars == <<signalled, spc, mpc, queued>>

VARIABLES
  oAdapter,   \* the adapter whose detectOutcome runs
  oPage,      \* the page the submit led to
  opc,        \* "page" | "detected"
  oResult     \* what detectOutcome returned

outcomeVars == <<oAdapter, oPage, opc, oResult>>

VARIABLES
  url,        \* the argument of normalizeUrl
  once,       \* normalizeUrl(url)
  twice,      \* normalizeUrl(normalizeUrl(url))
  upc         \* "input" | "once" | "twice"

urlVars == <<url, once, twice, upc>>

VARIABLES
  bPage,      \* what detectBlockingCondition finds on the page
  bThrows,    \* a page query inside it rejects
  bpc,        \* "page" | "detected"
  bResult     \* the ClassifiedError it returned (NoCondition = null)

blockVars == <<bPage, bThrows, bpc, bResult>>

VARIABLES
  fValue,       \* static fields whose profile value is non-empty
  fElement,     \* static fields one of whose selectors matches an element
  fFillThrows,  \* static fields whose element.fill(...) rejects
  fIdx,         \* position of the `for (const field of fields)` loop
  fCounted,     \* history: fields that got a `filled++`
  fFilled,      \* `filled`
  fFailed,      \* labels pushed to fieldsFailed
  fAttempted    \* history: fields whose try block was entered

fillVars == <<fValue, fElement, fFillThrows, fIdx, fCounted, fFilled, fFailed, fAttempted>>

VARIABLES
  tabStatus,    \* the `status` prop ApplyButton was rendered with, per page
  tabLoading,   \* its `loading` state
  tabError,     \* whether its `error` state is set
  reqPc         \* where the page's POST /api/runs/start request is

startVars == <<tabStatus, tabLoading, tabError, reqPc>>

\* the variables of the parts that follow the runner and the adapters
laterVars == <<jobVars, rateVars, retryVars, poolVars, shutVars, outcomeVars, urlVars, blockVars, fillVars, startVars>>

adapterVars == <<adapter, ctxDryRun, entry, form, apc, filledCount, fieldsFailed,
                 resumeSet, submitClicked, aThrew, aResult>>

runnerVars == <<runs, jobs, globalDryRun, webPc, webJob, pc, fetched, run,
                result, failCode, pendingJob, threw, claimCount>>

vars == <<runnerVars, adapterVars, laterVars>>

(***************************************************************************)
(* Rows and results.                                                       *)
(***************************************************************************)
NoRun == [id |-> 0, job_target_id |-> 0, dry_run |-> FALSE]
NoResult == [status |-> Null, errorCode |-> Null, requiredInputs |-> <<>>]

NoApplyResult ==
  [status |-> Null, errorCode |-> Null, fieldsFilledCount |-> 0,
   fieldsFailed |-> {}, requiredInputs |-> <<>>]

\* `a || b` of the source, for an optional value a
OrElse(a, b) == IF a = Null THEN b ELSE a

\* the row POST /api/runs/start inserts; dry_run is the optional column of Run
NewRun(j, dry) ==
  [status |-> "queued", job_target_id |-> j, dry_run |-> dry,
   finished_at |-> Null, error_code |-> Null,
   required_inputs |-> <<>>, result_dryRun |-> Null]

QueuedRuns == {r \in DOMAIN runs : runs[r].status = "queued"}

(***************************************************************************)
(* applyJob, seen from processRun: the ApplyResult values it can return.   *)
(***************************************************************************)
BlockingCodes == {"CAPTCHA_DETECTED", "ALREADY_APPLIED"}
ClassifiedCodes == {"UNKNOWN_ERROR"}
RequiredInputLists == {<<"q1">>, <<"q1", "q2">>}

Res(st, code) == [status |-> st, errorCode |-> code, requiredInputs |-> <<>>]

\* what adapter.apply(ctx) returns, by ctx.dryRun
AdapterApplyResults(dryRun) ==
  {Res("failed", "FORM_NOT_FOUND"), Res("failed", "ADAPTER_ERROR")}
  \cup (IF dryRun
        THEN {Res("dry_run_complete", Null)}
        ELSE {[status |-> "needs_input", errorCode |-> Null, requiredInputs |-> q] :
                 q \in RequiredInputLists}
             \cup {Res("failed", "SUBMIT_FAILED"), Res("succeeded", Null),
                   Res("blocked", "ALREADY_APPLIED"), Res("failed", "VALIDATION_ERROR"),
                   Res("blocked", "CAPTCHA_DETECTED")})

\* effectiveDryRun of applyJob
EffectiveDryRun(inputDryRun) == inputDryRun \/ globalDryRun

\* the values applyJob(input) resolves to
applyJob(inputDryRun) ==
  {Res("failed", "UNSUPPORTED_ATS")}
  \cup {Res("blocked", c) : c \in BlockingCodes}
  \cup AdapterApplyResults(EffectiveDryRun(inputDryRun))
  \cup {Res("failed", c) : c \in ClassifiedCodes}

(***************************************************************************)
(* Row updates of the runner.                                              *)
(***************************************************************************)
\* mutants of the guard: no status guard at all (update by id only);
\* a guard that also takes rows waiting for user input
ClaimGuard_byIdOnly(r) == TRUE
ClaimGuard_orNeedsInput(r) == runs[r].status \in {"queued", "needs_input"}

\* the guard `.eq('status', 'queued')` of claimRun's update
ClaimGuard(r) == runs[r].status = "queued"

claimUpdate(row) == [row EXCEPT !.status = "running"]

\* mutant: the row handed back for another attempt
failRunUpdate_requeue(row, errorCode) ==
  [row EXCEPT !.status = "queued", !.error_code = errorCode]

failRunUpdate(row, errorCode) ==
  [row EXCEPT !.status = "failed", !.finished_at = "set", !.error_code = errorCode]

\* result_json.dryRun is `run.dry_run || false`
succeededUpdate(row, rn) ==
  [row EXCEPT !.status = "succeeded", !.finished_at = "set",
              !.result_dryRun = IF rn.dry_run THEN "true" ELSE "false"]

\* mutant: finished_at stamped as in the other branches
needsInputUpdate_finished(row, res) ==
  [row EXCEPT !.status = "needs_input", !.finished_at = "set",
              !.error_code = "NEEDS_INPUT",
              !.required_inputs = res.requiredInputs]

needsInputUpdate(row, res) ==
  [row EXCEPT !.status = "needs_input", !.finished_at = Null,
              !.error_code = "NEEDS_INPUT",
              !.required_inputs = res.requiredInputs]

\* mutant: the fallback code written whatever the result carries
blockedUpdate_fallbackCode(row, res) ==
  [row EXCEPT !.status = "failed", !.finished_at = "set",
              !.error_code = "BLOCKED"]

blockedUpdate(row, res) ==
  [row EXCEPT !.status = "failed", !.finished_at = "set",
              !.error_code = OrElse(res.errorCode, "BLOCKED")]

\* job status written after a succeeded / dry_run_complete result ("none": no write)
succeededJobStatus(rn) == IF ~rn.dry_run THEN "applied" ELSE "none"

(***************************************************************************)
(* Init                                                                    *)
(***************************************************************************)
RunnerInit ==
  /\ runs = <<>>
  /\ jobs = [j \in JobIds |-> [status |-> "new"]]
  /\ globalDryRun \in BOOLEAN
  /\ webPc = "idle"
  /\ webJob = 0
  /\ pc = [w \in Workers |-> "idle"]
  /\ fetched = [w \in Workers |-> 0]
  /\ run = [w \in Workers |-> NoRun]
  /\ result = [w \in Workers |-> NoResult]
  /\ failCode = [w \in Workers |-> Null]
  /\ pendingJob = [w \in Workers |-> "none"]
  /\ threw = [w \in Workers |-> FALSE]
  /\ claimCount = [r \in RunIds |-> 0]

\* no adapter invocation is in progress
AdapterParked ==
  /\ adapter = "greenhouse"
  /\ ctxDryRun = FALSE
  /\ entry = "nothing"
  /\ form = <<>>
  /\ apc = "parked"
  /\ filledCount = 0
  /\ fieldsFailed = {}
  /\ resumeSet = FALSE
  /\ submitClicked = FALSE
  /\ aThrew = FALSE
  /\ aResult = NoApplyResult

\* no applyJob call is in progress
JobParked ==
  /\ jpc = "parked"
  /\ jSupported = FALSE
  /\ jDryRun = FALSE
  /\ usingBrowserbase = FALSE
  /\ enableArtifacts = FALSE
  /\ uploadArtifactsOn = FALSE
  /\ context = FALSE
  /\ openContexts = 0
  /\ tempResumeDir = FALSE
  /\ resumeDirOnDisk = FALSE
  /\ artifactCollector = FALSE
  /\ artifactDirOnDisk = FALSE
  /\ collectorShots = FALSE
  /\ adapterShots = FALSE
  /\ slotsTaken = 0
  /\ gotoCount = 0
  /\ preflight = Null
  /\ applyInvoked = FALSE
  /\ jThrew = FALSE
  /\ jResult = NoResult
  /\ jOutcome = "pending"

RateCallers == 1..NumRateCallers
Domains == {"greenhouse.io", "example.com"}
NoLimit == -1
NoEntry == [lastRequestAt |-> -1, requestCount |-> 0]

\* a rate limiter just constructed, no caller
RateParked ==
  /\ rNow = 0
  /\ defaultDelayMs = 1
  /\ domainLimits = [d \in Domains |-> NoLimit]
  /\ entries = [d \in Domains |-> NoEntry]
  /\ rpc = [c \in RateCallers |-> "idle"]
  /\ rDomain = [c \in RateCallers |-> "example.com"]
  /\ rWake = [c \in RateCallers |-> 0]
  /\ rSeen = [c \in RateCallers |-> NoEntry]
  /\ rReturnedAt = [c \in RateCallers |-> -1]
  /\ rStarted = 0

\* what operation() does: it resolves (Ok) or rejects with a value
Ok == [kind |-> "ok", msg |-> {}]
NoError == [kind |-> "none", msg |-> {}]
DEFAULT_RETRY_CONFIG ==
  [maxAttempts |-> 3, baseDelayMs |-> 1, maxDelayMs |-> 10, backoffMultiplier |-> 2]

\* no withRetry call
RetryParked ==
  /\ tpc = "returned"
  /\ retryConfig = DEFAULT_RETRY_CONFIG
  /\ attempt = 1
  /\ lastError = NoError
  /\ invocations = 0
  /\ sleeps = <<>>
  /\ history = <<>>

\* as many callers as it takes to pass BROWSER_CONFIG.maxConcurrentContexts
PoolCallers == 1..(MaxContexts + 1)

\* the module just loaded: no browser, no context, no caller
PoolParked ==
  /\ contextCount = 0
  /\ liveContexts = 0
  /\ localBrowser = FALSE
  /\ useBrowserbase = FALSE
  /\ cpc = [c \in PoolCallers |-> "idle"]

\* no signal, main() about to poll an empty queue
ShutParked ==
  /\ signalled = FALSE
  /\ spc = "none"
  /\ mpc = "poll"
  /\ queued = 0

\* no page under outcome detection
OutcomeParked ==
  /\ oAdapter = "greenhouse"
  /\ oPage = [text |-> {}, els |-> <<>>, confirmUrl |-> FALSE]
  /\ opc = "detected"
  /\ oResult = [status |-> "succeeded", errorCode |-> Null]

\* no URL under normalisation
UrlParked ==
  /\ url = [valid |-> FALSE, host |-> "", pathname |-> <<>>, query |-> <<>>, hash |-> FALSE]
  /\ once = url
  /\ twice = url
  /\ upc = "twice"

NoCondition ==
  [category |-> Null, code |-> Null, retryable |-> FALSE, maxRetries |-> 0]

\* no page under pre-flight detection
BlockParked ==
  /\ bPage = {}
  /\ bThrows = FALSE
  /\ bpc = "detected"
  /\ bResult = NoCondition

StaticFields == 1..NumFields

\* no static fill loop running
FillParked ==
  /\ fValue = {}
  /\ fElement = {}
  /\ fFillThrows = {}
  /\ fIdx = NumFields + 1
  /\ fCounted = {}
  /\ fFilled = 0
  /\ fFailed = {}
  /\ fAttempted = {}

Tabs == 1..NumTabs

\* every page shows the button of a new job, no request in flight
StartParked ==
  /\ tabStatus = [t \in Tabs |-> "new"]
  /\ tabLoading = [t \in Tabs |-> FALSE]
  /\ tabError = [t \in Tabs |-> FALSE]
  /\ reqPc = [t \in Tabs |-> "none"]

LaterParked == JobParked /\ RateParked /\ RetryParked /\ PoolParked /\ ShutParked /\ OutcomeParked /\ UrlParked /\ BlockParked /\ FillParked /\ StartParked

Init == RunnerInit /\ AdapterParked /\ LaterParked

(***************************************************************************)
(* POST /api/runs/start                                                    *)
(***************************************************************************)
\* what no step of the runner changes: the configuration and the adapter run
cfgVars == <<globalDryRun, adapterVars, laterVars>>
workerVars == <<pc, fetched, run, result, failCode, pendingJob, threw,
                claimCount>>

\* insert into application_runs (status queued)
StartRunInsert ==
  /\ webPc = "idle"
  /\ Len(runs) < MaxRuns
  /\ \E j \in JobIds, dry \in BOOLEAN :
       /\ runs' = Append(runs, NewRun(j, dry))
       /\ webJob' = j
  /\ webPc' = "update_job"
  /\ UNCHANGED <<jobs, cfgVars, workerVars>>

\* update job_targets set status = queued
StartRunUpdateJob ==
  /\ webPc = "update_job"
  /\ jobs' = [jobs EXCEPT ![webJob].status = "queued"]
  /\ webPc' = "idle"
  /\ webJob' = 0
  /\ UNCHANGED <<runs, cfgVars, workerVars>>

(***************************************************************************)
(* claimRun                                                                *)
(***************************************************************************)
webVars == <<webPc, webJob>>
dbVars == <<runs, jobs>>

\* select * from application_runs where status = queued limit 1
\* `if (fetchError || !runs || runs.length === 0) return null`
claimRunSelect(w) ==
  /\ pc[w] = "idle"
  /\ \/ \E r \in QueuedRuns :
          /\ fetched' = [fetched EXCEPT ![w] = r]
          /\ pc' = [pc EXCEPT ![w] = "claim_update"]
     \/ /\ pc' = [pc EXCEPT ![w] = "sleep"]
        /\ UNCHANGED fetched
  /\ UNCHANGED <<dbVars, cfgVars, webVars, run, result, failCode,
                 pendingJob, threw, claimCount>>

\* update ... set status = running where id = run.id and status = queued;
\* `if (claimError || !claimed) return null`
claimRunUpdate(w) ==
  /\ pc[w] = "claim_update"
  /\ LET r == fetched[w] IN
     \/ /\ ClaimGuard(r)
        /\ runs' = [runs EXCEPT ![r] = claimUpdate(runs[r])]
        /\ run' = [run EXCEPT ![w] = [id |-> r,
                                      job_target_id |-> runs[r].job_target_id,
                                      dry_run |-> runs[r].dry_run]]
        /\ claimCount' = [claimCount EXCEPT ![r] = @ + 1]
        /\ pc' = [pc EXCEPT ![w] = "claim_log"]
     \/ /\ ~ClaimGuard(r)
        /\ pc' = [pc EXCEPT ![w] = "sleep"]
        /\ UNCHANGED <<runs, run, claimCount>>
  /\ fetched' = [fetched EXCEPT ![w] = 0]
  /\ UNCHANGED <<jobs, cfgVars, webVars, result, failCode, pendingJob, threw>>

\* logEvent(claimed.id, 'Run claimed by worker'); return claimed.
\* An exception of logEvent leaves claimRun and is caught by main's loop.
claimRunLog(w) ==
  /\ pc[w] = "claim_log"
  /\ \/ /\ pc' = [pc EXCEPT ![w] = "load_job"]
        /\ UNCHANGED run
     \/ /\ pc' = [pc EXCEPT ![w] = "sleep"]
        /\ run' = [run EXCEPT ![w] = NoRun]
  /\ UNCHANGED <<dbVars, cfgVars, webVars, fetched, result, failCode,
                 pendingJob, threw, claimCount>>

(***************************************************************************)
(* processRun                                                              *)
(***************************************************************************)
\* processRun returns to main, which goes on to wait pollIntervalMs
Return(w) ==
  /\ pc' = [pc EXCEPT ![w] = "sleep"]
  /\ run' = [run EXCEPT ![w] = NoRun]
  /\ result' = [result EXCEPT ![w] = NoResult]
  /\ failCode' = [failCode EXCEPT ![w] = Null]
  /\ pendingJob' = [pendingJob EXCEPT ![w] = "none"]
  /\ threw' = [threw EXCEPT ![w] = FALSE]

\* an exception raised by a step of processRun: inside the try block it is
\* caught (failRun UNEXPECTED_ERROR, then updateJobStatus failed); raised by
\* the catch block itself it ends processRun and is logged by main
Raise(w) ==
  IF threw[w]
  THEN Return(w)
  ELSE /\ threw' = [threw EXCEPT ![w] = TRUE]
       /\ failCode' = [failCode EXCEPT ![w] = "UNEXPECTED_ERROR"]
       /\ pendingJob' = [pendingJob EXCEPT ![w] = "failed"]
       /\ pc' = [pc EXCEPT ![w] = "fail_run"]
       /\ UNCHANGED <<run, result>>

\* a step of processRun that neither throws nor returns
Goto(w, next) ==
  /\ pc' = [pc EXCEPT ![w] = next]
  /\ UNCHANGED <<threw, run>>

\* `if (!record) { await failRun(run.id, code, ...); return; }`
Missing(w, code) ==
  /\ failCode' = [failCode EXCEPT ![w] = code]
  /\ pendingJob' = [pendingJob EXCEPT ![w] = "none"]
  /\ Goto(w, "fail_run")
  /\ UNCHANGED result

\* select from job_targets / resumes / profiles ... single()
loadRecord(w, at, next, code) ==
  /\ pc[w] = at
  /\ \/ /\ Goto(w, next)
        /\ UNCHANGED <<failCode, pendingJob, result>>
     \/ Missing(w, code)
     \/ Raise(w)
  /\ UNCHANGED <<dbVars, cfgVars, webVars, fetched, claimCount>>

loadJob(w) == loadRecord(w, "load_job", "load_resume", "JOB_NOT_FOUND")
loadResume(w) == loadRecord(w, "load_resume", "load_profile", "RESUME_NOT_FOUND")
loadProfile(w) == loadRecord(w, "load_profile", "log_start", "PROFILE_NOT_FOUND")

\* logEvent('Starting application'), then the legacy trigger:
\* url.searchParams.get('fail') === 'true' (first disjunct) or not (second)
logStart(w) ==
  /\ pc[w] = "log_start"
  /\ \/ /\ failCode' = [failCode EXCEPT ![w] = "TEST_FAILURE"]
        /\ pendingJob' = [pendingJob EXCEPT ![w] = "failed"]
        /\ Goto(w, "fail_run")
        /\ UNCHANGED result
     \/ /\ Goto(w, "apply")
        /\ UNCHANGED <<failCode, pendingJob, result>>
     \/ Raise(w)
  /\ UNCHANGED <<dbVars, cfgVars, webVars, fetched, claimCount>>

\* the statuses with a branch of their own in processRun
OwnBranch == {"succeeded", "dry_run_complete", "needs_input", "blocked"}

\* const result = await applyJob({..., dryRun: run.dry_run || false});
\* logEvent('Application result'); then the branch on result.status
callApplyJob(w) ==
  /\ pc[w] = "apply"
  /\ \/ \E res \in applyJob(run[w].dry_run) :
          /\ result' = [result EXCEPT ![w] = res]
          /\ IF res.status \in OwnBranch
             THEN /\ Goto(w, "persist_run")
                  /\ UNCHANGED <<failCode, pendingJob>>
             ELSE /\ failCode' = [failCode EXCEPT ![w] = OrElse(res.errorCode, "UNKNOWN")]
                  /\ pendingJob' = [pendingJob EXCEPT ![w] = "failed"]
                  /\ Goto(w, "fail_run")
     \/ Raise(w)
  /\ UNCHANGED <<dbVars, cfgVars, webVars, fetched, claimCount>>

\* the update of application_runs in the succeeded / needs_input / blocked branch
persistedRow(row, res, rn) ==
  CASE res.status \in {"succeeded", "dry_run_complete"} -> succeededUpdate(row, rn)
    [] res.status = "needs_input" -> needsInputUpdate(row, res)
    [] OTHER -> blockedUpdate(row, res)

\* the updateJobStatus call that follows it
persistedJobStatus(res, rn) ==
  CASE res.status \in {"succeeded", "dry_run_complete"} -> succeededJobStatus(rn)
    [] res.status = "needs_input" -> "needs_input"
    [] OTHER -> "blocked"

persistRun(w) ==
  /\ pc[w] = "persist_run"
  /\ \/ /\ runs' = [runs EXCEPT ![run[w].id] = persistedRow(@, result[w], run[w])]
        /\ IF persistedJobStatus(result[w], run[w]) = "none"
           THEN Return(w)
           ELSE /\ pendingJob' = [pendingJob EXCEPT ![w] =
                                     persistedJobStatus(result[w], run[w])]
                /\ Goto(w, "update_job")
                /\ UNCHANGED <<failCode, result>>
     \/ /\ Raise(w)
        /\ UNCHANGED runs
  /\ UNCHANGED <<jobs, cfgVars, webVars, fetched, claimCount>>

\* failRun(runId, errorCode, errorMessage): logEvent, then the update
failRun(w) ==
  /\ pc[w] = "fail_run"
  /\ \/ /\ runs' = [runs EXCEPT ![run[w].id] = failRunUpdate(@, failCode[w])]
        /\ IF pendingJob[w] = "none"
           THEN Return(w)
           ELSE /\ Goto(w, "update_job")
                /\ UNCHANGED <<failCode, pendingJob, result>>
     \/ /\ Raise(w)
        /\ UNCHANGED runs
  /\ UNCHANGED <<jobs, cfgVars, webVars, fetched, claimCount>>

\* updateJobStatus(run.job_target_id, status), the last call of its branch
updateJobStatus(w) ==
  /\ pc[w] = "update_job"
  /\ \/ /\ jobs' = [jobs EXCEPT ![run[w].job_target_id].status = pendingJob[w]]
        /\ Return(w)
     \/ /\ Raise(w)
        /\ UNCHANGED jobs
  /\ UNCHANGED <<runs, cfgVars, webVars, fetched, claimCount>>

\* main: `await new Promise((resolve) => setTimeout(resolve, pollIntervalMs))`
pollSleep(w) ==
  /\ pc[w] = "sleep"
  /\ pc' = [pc EXCEPT ![w] = "idle"]
  /\ UNCHANGED <<dbVars, cfgVars, webVars, fetched, run, result, failCode,
                 pendingJob, threw, claimCount>>

(***************************************************************************)
(* Specification of the runner                                             *)
(***************************************************************************)
claimRun(w) == claimRunSelect(w) \/ claimRunUpdate(w) \/ claimRunLog(w)

processRun(w) ==
  \/ loadJob(w) \/ loadResume(w) \/ loadProfile(w) \/ logStart(w)
  \/ callApplyJob(w) \/ persistRun(w) \/ failRun(w) \/ updateJobStatus(w)

main(w) == claimRun(w) \/ processRun(w) \/ pollSleep(w)

Next ==
  \/ StartRunInsert
  \/ StartRunUpdateJob
  \/ \E w \in Workers : main(w)

Spec == Init /\ [][Next]_vars

\* the event loop runs every worker that can take a step
FairSpec == Spec /\ \A w \in Workers : WF_vars(main(w))

TypeOK ==
  /\ Len(runs) <= MaxRuns
  /\ \A r \in DOMAIN runs :
       runs[r].status \in {"queued", "running", "succeeded", "failed", "needs_input"}
  /\ \A j \in JobIds :
       jobs[j].status \in {"new", "queued", "applied", "failed", "blocked", "needs_input"}

(***************************************************************************)
(* Properties of the runner                                                *)
(***************************************************************************)
\* worker w is inside processRun
InProcessRun(w) ==
  pc[w] \in {"load_job", "load_resume", "load_profile", "log_start", "apply",
             "persist_run", "fail_run", "update_job"}

\* this step is the normal return of worker w's processRun: no exception was
\* raised in it (an exception outside the catch block does not end processRun)
ReturnsNormally(w) == InProcessRun(w) /\ ~threw[w] /\ pc'[w] = "sleep"

\* this step ends worker w's processRun after an exception was raised in it
EndsAfterThrow(w) == InProcessRun(w) /\ threw[w] /\ pc'[w] = "sleep"

\* C1: however many workers run claimRun against one queued row, at most one
\* of them performs the queued -> running transition and holds the row; a
\* claimRun whose guarded update matches no row (the race was lost) returns
\* null: the worker is back in its poll loop, holds no row, changed none.
C1_ClaimExclusive ==
  /\ [](\A r \in RunIds :
          /\ claimCount[r] <= 1
          /\ Cardinality({w \in Workers : run[w].id = r}) <= 1)
  /\ [][\A w \in Workers :
          (pc[w] = "claim_update" /\ pc'[w] # "claim_update"
             /\ runs[fetched[w]].status # "queued")
          => (pc'[w] = "sleep" /\ run'[w] = NoRun /\ runs' = runs)]_vars

\* C1 witness: two claimRun calls raced for the same row; one has taken it,
\* the other has selected it and is about to run its guarded update.
C1_Witness ==
  \E w1, w2 \in Workers :
    /\ w1 # w2
    /\ run[w1].id # 0
    /\ pc[w2] = "claim_update"
    /\ fetched[w2] = run[w1].id

\* C3 (as claimed): whenever processRun ends after an exception was raised in
\* it, the row of its run is failed with a non-null error_code.
C3_ThrowEndsFailed ==
  [][\A w \in Workers :
       EndsAfterThrow(w)
       => (runs'[run[w].id].status = "failed"
           /\ runs'[run[w].id].error_code # Null)]_vars

\* C4 (as claimed): a row in status running eventually leaves status running.
C4_RunningEventuallyEnds ==
  \A r \in RunIds :
    (r \in DOMAIN runs /\ runs[r].status = "running")
      ~> (r \in DOMAIN runs /\ runs[r].status # "running")

\* C5: a step of claimRun changes a row only from queued to running, and
\* returns only a row that was queued when the guarded update ran; rows in
\* status running, succeeded, failed or needs_input are left as they are.
C5_ClaimOnlyQueued ==
  [][\A w \in Workers :
       (pc[w] \in {"idle", "claim_update", "claim_log"} /\ pc'[w] # pc[w])
       => /\ \A r \in DOMAIN runs :
               runs'[r] # runs[r]
               => (runs[r].status = "queued" /\ runs'[r].status = "running")
          /\ (run'[w].id # 0 /\ run[w].id = 0)
               => runs[run'[w].id].status = "queued"]_vars

\* C5 witness: a claimRun call whose select saw the row queued reaches its
\* update when the row is already waiting for user input.
C5_Witness ==
  \E w \in Workers :
    /\ pc[w] = "claim_update"
    /\ runs[fetched[w]].status = "needs_input"

\* C8 (as claimed): after a succeeded result the row is succeeded and the job
\* applied; after a dry_run_complete result the row is succeeded, the payload
\* records the dry run, and updateJobStatus(applied) is not called.
C8_SucceededMapping ==
  [][\A w \in Workers :
       /\ (ReturnsNormally(w) /\ result[w].status = "succeeded")
            => (runs'[run[w].id].status = "succeeded"
                /\ jobs'[run[w].job_target_id].status = "applied")
       /\ (ReturnsNormally(w) /\ result[w].status = "dry_run_complete")
            => (runs'[run[w].id].status = "succeeded"
                /\ runs'[run[w].id].result_dryRun = "true"
                /\ ~(pc[w] = "update_job" /\ pendingJob[w] = "applied"))]_vars

\* C9: when processRun returns after a needs_input result, the row is
\* needs_input with finished_at null and the result's requiredInputs, and
\* the job is needs_input.
C9_NeedsInputMapping ==
  [][\A w \in Workers :
       (ReturnsNormally(w) /\ result[w].status = "needs_input")
       => (/\ runs'[run[w].id].status = "needs_input"
           /\ runs'[run[w].id].finished_at = Null
           /\ runs'[run[w].id].required_inputs = result[w].requiredInputs
           /\ jobs'[run[w].job_target_id].status = "needs_input")]_vars

\* C9 witness: a run persisted as needs_input with two questions, job paused.
C9_Witness ==
  \E r \in DOMAIN runs :
    /\ runs[r].status = "needs_input"
    /\ runs[r].required_inputs = <<"q1", "q2">>
    /\ runs[r].finished_at = Null
    /\ jobs[runs[r].job_target_id].status = "needs_input"
    /\ \A w \in Workers : run[w].id # r

\* C10: when processRun returns after a blocked result, the row is failed
\* with the result's errorCode and a finished_at, and the job is blocked.
C10_BlockedMapping ==
  [][\A w \in Workers :
       (ReturnsNormally(w) /\ result[w].status = "blocked")
       => (/\ runs'[run[w].id].status = "failed"
           /\ runs'[run[w].id].error_code = result[w].errorCode
           /\ runs'[run[w].id].finished_at # Null
           /\ jobs'[run[w].job_target_id].status = "blocked")]_vars

\* C10 witness: a run failed with the blocking code, its job blocked.
C10_Witness ==
  \E r \in DOMAIN runs :
    /\ runs[r].status = "failed"
    /\ runs[r].error_code = "CAPTCHA_DETECTED"
    /\ runs[r].finished_at # Null
    /\ jobs[runs[r].job_target_id].status = "blocked"
    /\ \A w \in Workers : run[w].id # r

\* C11 (as claimed): when processRun returns, the job of its run mirrors the
\* row: needs_input with needs_input, failed with failed or blocked,
\* succeeded on a non-dry run with applied (a run whose job could not be
\* loaded has no job to mirror it).
C11_JobMirrorsRun ==
  [][\A w \in Workers :
       (ReturnsNormally(w) /\ failCode[w] # "JOB_NOT_FOUND")
       => LET row == runs'[run[w].id]
              job == jobs'[run[w].job_target_id]
          IN  /\ row.status = "needs_input" => job.status = "needs_input"
              /\ row.status = "failed" => job.status \in {"failed", "blocked"}
              /\ (row.status = "succeeded" /\ ~run[w].dry_run)
                   => job.status = "applied"]_vars

NotFoundCodes == {"JOB_NOT_FOUND", "RESUME_NOT_FOUND", "PROFILE_NOT_FOUND"}

\* the record whose select precedes the decision for a not-found code
DecidedAt(code) ==
  CASE code = "JOB_NOT_FOUND" -> "load_job"
    [] code = "RESUME_NOT_FOUND" -> "load_resume"
    [] code = "PROFILE_NOT_FOUND" -> "load_profile"

\* C12: a not-found code is decided at the select of its own record, after
\* the records before it were found; a processRun that returns on it leaves
\* the row failed with that code and has not called applyJob; and no row
\* that left queued is ever queued again.
C12_MissingRecordFails ==
  /\ [][\A w \in Workers :
          /\ (failCode'[w] \in NotFoundCodes /\ failCode'[w] # failCode[w])
               => pc[w] = DecidedAt(failCode'[w])
          /\ (ReturnsNormally(w) /\ failCode[w] \in NotFoundCodes)
               => /\ runs'[run[w].id].status = "failed"
                  /\ runs'[run[w].id].error_code = failCode[w]
                  /\ runs'[run[w].id].finished_at # Null
                  /\ result[w] = NoResult]_vars
  /\ [][\A r \in DOMAIN runs :
          runs[r].status # "queued" => runs'[r].status # "queued"]_vars

\* C12 witness: a run whose resume was missing is failed RESUME_NOT_FOUND and
\* its processRun has returned.
C12_Witness ==
  \E r \in DOMAIN runs :
    /\ runs[r].status = "failed"
    /\ runs[r].error_code = "RESUME_NOT_FOUND"
    /\ \A w \in Workers : run[w].id # r /\ pc[w] \in {"sleep", "idle"}

(***************************************************************************)
(* Part II - site adapters.                                                *)
(* The page: its form controls and their options.                          *)
(***************************************************************************)
MaxControls == 2

Adapters == {"greenhouse", "lever"}

\* an <option>: its text and its value attribute ("" = no value)
Opt(t, v) == [text |-> t, value |-> v]

\* the option lists a <select> of the page can carry; the first is selected
OptionLists ==
  << <<Opt("--", ""), Opt("Yes", "yes"), Opt("No", "no")>>,
     <<Opt("Select...", ""), Opt("Not selected", "ns"), Opt("Yes", "yes")>> >>

\* the option elements a custom dropdown shows once it is opened
ComboOptions == <<"Yes", "No">>

\* how a control is marked required: not at all, by the required attribute of
\* the element, by an asterisk in the label of its container
Reqs == {"none", "attr", "asterisk"}

\* select       <select>
\* combobox     custom dropdown, a div with role=combobox
\* text         <input type="text"> or <textarea>
\* other        <input> of another type (email, tel, url, ...)
Kinds == {"select", "combobox", "text", "other"}
Control(k, r, o) == [kind |-> k, req |-> r, opts |-> o, sel |-> 1,
                     filled |-> FALSE]

\* a custom dropdown is a div: it has no required attribute
Controls == {Control("select", r, o) : r \in Reqs, o \in DOMAIN OptionLists}
            \cup {Control(k, r, 0) : k \in {"text", "other"}, r \in Reqs}
            \cup {Control("combobox", r, 0) : r \in {"none", "asterisk"}}

\* a rank of the controls, to list each form once: no step depends on the
\* position of a control other than through the order of what the scans
\* return, and the rank runs against the order of the scans
Rank(c) ==
  (CASE c.kind = "other" -> 0
     [] c.kind = "text" -> 10
     [] c.kind = "combobox" -> 20
     [] c.kind = "select" -> 30)
  + (CASE c.req = "none" -> 0 [] c.req = "attr" -> 3 [] c.req = "asterisk" -> 6)
  + c.opts

Forms ==
  UNION {{f \in [1..n -> Controls] :
            \A i \in 1..n : \A j \in 1..n :
               i < j => Rank(f[i]) <= Rank(f[j])} : n \in 0..MaxControls}

SelectedOption(c) == OptionLists[c.opts][c.sel]

\* the control holds no answer
IsEmpty(c) ==
  IF c.kind = "select" THEN SelectedOption(c).value = "" ELSE ~c.filled

\* the required controls of the form that hold no answer
Unresolved(f) == {i \in DOMAIN f : f[i].req # "none" /\ IsEmpty(f[i])}

\* the texts of the options of a <select> that are not its placeholder
RealOptions(c) ==
  {OptionLists[c.opts][k].text : k \in
     {k \in DOMAIN OptionLists[c.opts] : OptionLists[c.opts][k].value # ""}}

\* text.toLowerCase().includes('select')
IncludesSelect(t) == t \in {"Select...", "Not selected"}

SeqToSet(q) == {q[k] : k \in DOMAIN q}

(***************************************************************************)
(* detectUnfilledRequiredFields (Greenhouse): three scans of the page, in  *)
(* this order; fieldName is the control the entry was made for.            *)
(***************************************************************************)
RequiredInput(i, t, o) == [fieldName |-> i, fieldType |-> t, options |-> o]

Positions(f) == [i \in DOMAIN f |-> i]

\* the option texts the <select> scan keeps
keptOptions(c) ==
  LET kept == SelectSeq(OptionLists[c.opts],
                LAMBDA o : /\ o.value # ""
                           /\ o.text # ""
                           /\ ~IncludesSelect(o.text)
                           /\ o.text # "--")
  IN  [k \in DOMAIN kept |-> kept[k].text]

\* page.$$('select')
selectScan(f) ==
  LET hit(i) == /\ f[i].kind = "select"
                /\ \/ SelectedOption(f[i]).value = ""
                   \/ IncludesSelect(SelectedOption(f[i]).text)
                /\ f[i].req \in {"attr", "asterisk"}
      idx == SelectSeq(Positions(f), hit)
  IN  [k \in DOMAIN idx |->
         RequiredInput(idx[k], "select", keptOptions(f[idx[k]]))]

\* page.$$('[class*="select__control"], [class*="Select"], [role="combobox"]')
dropdownScan(f) ==
  LET hit(i) == /\ f[i].kind = "combobox"
                /\ ~f[i].filled
                /\ f[i].req = "asterisk"
      idx == SelectSeq(Positions(f), hit)
  IN  [k \in DOMAIN idx |-> RequiredInput(idx[k], "select", ComboOptions)]

\* page.$$('input[type="text"]:not([type="file"]), textarea')
textScan(f) ==
  LET hit(i) == /\ f[i].kind = "text"
                /\ ~f[i].filled
                /\ f[i].req \in {"attr", "asterisk"}
      idx == SelectSeq(Positions(f), hit)
  IN  [k \in DOMAIN idx |-> RequiredInput(idx[k], "text", <<>>)]

detectUnfilledRequiredFields(f) ==
  selectScan(f) \o dropdownScan(f) \o textScan(f)

(***************************************************************************)
(* detectOutcome: the ApplyResult read off the page after the submit.      *)
(***************************************************************************)
\* what the page shows after the submit
\*   success_phrase    one of the success phrases both adapters look for
\*   you_have_applied  the text "you have applied"
\*   already_applied   "already applied" or "duplicate application"
\*   error_element     an element of class error / field-error / error-message
\*                     with text
\*   error_class       an element whose class merely contains "error", with
\*                     text
\*   captcha           "captcha" or "verify you are human"
\*   confirm_url       the URL contains /thanks, /confirmation or /applied
PageSignals == {"success_phrase", "you_have_applied", "already_applied",
                "error_element", "error_class", "captcha", "confirm_url"}

Outcome(st, code) == [status |-> st, errorCode |-> code]

greenhouseDetectOutcome(sig) ==
  IF sig \cap {"success_phrase", "you_have_applied"} # {}
    THEN Outcome("succeeded", Null)
  ELSE IF "already_applied" \in sig
    THEN Outcome("blocked", "ALREADY_APPLIED")
  ELSE IF sig \cap {"error_element", "error_class"} # {}
    THEN Outcome("failed", "VALIDATION_ERROR")
  ELSE IF "captcha" \in sig
    THEN Outcome("blocked", "CAPTCHA_DETECTED")
  ELSE Outcome("succeeded", Null)

\* (mutant first: the validation errors are looked at before the
\* already-applied phrases)
leverDetectOutcome_errorsFirst(sig) ==
  IF "success_phrase" \in sig
    THEN Outcome("succeeded", Null)
  ELSE IF "error_element" \in sig
    THEN Outcome("failed", "VALIDATION_ERROR")
  ELSE IF sig \cap {"already_applied", "you_have_applied"} # {}
    THEN Outcome("blocked", "ALREADY_APPLIED")
  ELSE IF "captcha" \in sig
    THEN Outcome("blocked", "CAPTCHA_DETECTED")
  ELSE Outcome("succeeded", Null)

leverDetectOutcome(sig) ==
  IF "success_phrase" \in sig
    THEN Outcome("succeeded", Null)
  ELSE IF sig \cap {"already_applied", "you_have_applied"} # {}
    THEN Outcome("blocked", "ALREADY_APPLIED")
  ELSE IF "error_element" \in sig
    THEN Outcome("failed", "VALIDATION_ERROR")
  ELSE IF "captcha" \in sig
    THEN Outcome("blocked", "CAPTCHA_DETECTED")
  ELSE IF "confirm_url" \in sig
    THEN Outcome("succeeded", Null)
  ELSE Outcome("succeeded", Null)

\* what detectOutcome can return, over every page the submit can lead to
Outcomes(a) ==
  {IF a = "greenhouse" THEN greenhouseDetectOutcome(sig)
                       ELSE leverDetectOutcome(sig) : sig \in SUBSET PageSignals}

(***************************************************************************)
(* apply(ctx): the steps of one adapter invocation.                        *)
(***************************************************************************)
ApplyResult(st, code, n, ff, ri) ==
  [status |-> st, errorCode |-> code, fieldsFilledCount |-> n,
   fieldsFailed |-> ff, requiredInputs |-> ri]

\* `return { ... }` of apply
ReturnResult(res) ==
  /\ apc' = "returned"
  /\ aResult' = res

\* the catch block of apply, with the locals as they are when it runs
Catch(n, ff) ==
  /\ aThrew' = TRUE
  /\ ReturnResult(ApplyResult("failed", "ADAPTER_ERROR", n, ff, <<>>))

\* the `if (dryRun)` that follows the pre-submit screenshot
\* (mutant first: the test dropped, a dry run goes on to the submit)
dryRunStop_off(d) == FALSE

dryRunStop(d) == d

\* what one pass over the controls does to each: leaves it alone, throws on
\* it, fills it
FillOutcomes(f, acts) == [DOMAIN f -> acts]

\* the option a filled <select> ends on: one that has a value
Picks(f, o) ==
  {p \in [DOMAIN f -> 1..3] :
     \A i \in DOMAIN f :
       IF f[i].kind = "select" /\ o[i] = "fill"
         THEN /\ p[i] \in DOMAIN OptionLists[f[i].opts]
              /\ OptionLists[f[i].opts][p[i]].value # ""
         ELSE p[i] = 1}

Filled(f, o, p) ==
  [i \in DOMAIN f |->
     IF o[i] # "fill" THEN f[i]
     ELSE IF f[i].kind = "select" THEN [f[i] EXCEPT !.sel = p[i]]
     ELSE [f[i] EXCEPT !.filled = TRUE]]

Count(o, act) == Cardinality({i \in DOMAIN o : o[i] = act})

\* the controls fillFormFields reaches: Lever's fills inputs only, Greenhouse's
\* goes on to the country and work authorization dropdowns and to the custom
\* questions
FillKinds(a) ==
  IF a = "lever" THEN {"text", "other"} ELSE Kinds

navigateToForm(a) ==
  /\ adapter = a
  /\ apc = "navigate"
  /\ \/ /\ entry \in {"form", "button_no_form"}
        /\ apc' = "fill"
        /\ UNCHANGED <<aThrew, aResult>>
     \/ /\ entry = "nothing"
        /\ ReturnResult(ApplyResult("failed", "FORM_NOT_FOUND", 0, {}, <<>>))
        /\ UNCHANGED aThrew
     \/ Catch(filledCount, fieldsFailed)
  /\ UNCHANGED <<adapter, ctxDryRun, entry, form, filledCount, fieldsFailed,
                 resumeSet, submitClicked, runnerVars, laterVars>>

\* fillFormFields; the Greenhouse one ends with its handleCustomQuestions,
\* whose page query is outside every try block
fillFormFields(a) ==
  /\ adapter = a
  /\ apc = "fill"
  /\ \E o \in FillOutcomes(form, {"skip", "fail", "fill"}) :
     \E p \in Picks(form, o) :
       /\ \A i \in DOMAIN o : o[i] # "skip" => form[i].kind \in FillKinds(a)
       /\ form' = Filled(form, o, p)
       /\ fieldsFailed' = {i \in DOMAIN o : o[i] = "fail"}
       /\ \/ /\ filledCount' = Count(o, "fill")
             /\ apc' = "upload"
             /\ UNCHANGED <<aThrew, aResult>>
          \/ /\ a = "greenhouse"
             /\ UNCHANGED filledCount
             /\ Catch(filledCount, fieldsFailed')
  /\ UNCHANGED <<adapter, ctxDryRun, entry, resumeSet, submitClicked,
                 runnerVars, laterVars>>

\* uploadResume and handleCoverLetter: both swallow their exceptions
uploadResume(a) ==
  /\ adapter = a
  /\ apc = "upload"
  /\ \E uploaded \in BOOLEAN :
       /\ resumeSet' = uploaded
       /\ filledCount' = IF uploaded THEN filledCount + 1 ELSE filledCount
  /\ apc' = IF a = "lever" THEN "custom" ELSE "pre_submit"
  /\ UNCHANGED <<adapter, ctxDryRun, entry, form, fieldsFailed,
                 submitClicked, aThrew, aResult, runnerVars, laterVars>>

\* LeverAdapter.handleCustomQuestions, called from apply after the upload:
\* fills controls that are still empty, records no failure
leverCustomQuestions ==
  /\ adapter = "lever"
  /\ apc = "custom"
  /\ \/ \E o \in FillOutcomes(form, {"skip", "fill"}) :
        \E p \in Picks(form, o) :
          /\ \A i \in DOMAIN o : o[i] = "fill" => IsEmpty(form[i])
          /\ form' = Filled(form, o, p)
          /\ filledCount' = filledCount + Count(o, "fill")
          /\ apc' = "pre_submit"
          /\ UNCHANGED <<aThrew, aResult>>
     \/ /\ Catch(filledCount, fieldsFailed)
        /\ UNCHANGED <<form, filledCount>>
  /\ UNCHANGED <<adapter, ctxDryRun, entry, fieldsFailed, resumeSet,
                 submitClicked, runnerVars, laterVars>>

\* GreenhouseAdapter.apply from the pre-submit screenshot to the submit
greenhousePreSubmit ==
  /\ adapter = "greenhouse"
  /\ apc = "pre_submit"
  /\ LET unfilledFields == detectUnfilledRequiredFields(form)
     IN  IF dryRunStop(ctxDryRun)
           THEN ReturnResult(ApplyResult("dry_run_complete", Null,
                                         filledCount, fieldsFailed, <<>>))
         ELSE IF Len(unfilledFields) > 0
           THEN ReturnResult(ApplyResult("needs_input", Null, filledCount,
                                         fieldsFailed, unfilledFields))
         ELSE /\ apc' = "submit"
              /\ UNCHANGED aResult
  /\ UNCHANGED <<adapter, ctxDryRun, entry, form, filledCount, fieldsFailed,
                 resumeSet, submitClicked, aThrew, runnerVars, laterVars>>

\* LeverAdapter.apply from the pre-submit screenshot to the submit
leverPreSubmit ==
  /\ adapter = "lever"
  /\ apc = "pre_submit"
  /\ IF dryRunStop(ctxDryRun)
       THEN ReturnResult(ApplyResult("dry_run_complete", Null,
                                     filledCount, fieldsFailed, <<>>))
       ELSE /\ apc' = "submit"
            /\ UNCHANGED aResult
  /\ UNCHANGED <<adapter, ctxDryRun, entry, form, filledCount, fieldsFailed,
                 resumeSet, submitClicked, aThrew, runnerVars, laterVars>>

\* submitForm and the SUBMIT_FAILED return of apply
submitForm(a) ==
  /\ adapter = a
  /\ apc = "submit"
  /\ \/ /\ submitClicked' = TRUE
        /\ apc' = "detect"
        /\ UNCHANGED aResult
     \/ /\ ReturnResult(ApplyResult("failed", "SUBMIT_FAILED", filledCount,
                                    fieldsFailed, <<>>))
        /\ UNCHANGED submitClicked
  /\ UNCHANGED <<adapter, ctxDryRun, entry, form, filledCount, fieldsFailed,
                 resumeSet, aThrew, runnerVars, laterVars>>

\* `return await this.detectOutcome(...)` of apply
detectOutcome(a) ==
  /\ adapter = a
  /\ apc = "detect"
  /\ \/ \E out \in Outcomes(a) :
          /\ ReturnResult(ApplyResult(out.status, out.errorCode,
                                      filledCount, fieldsFailed, <<>>))
          /\ UNCHANGED aThrew
     \/ Catch(filledCount, fieldsFailed)
  /\ UNCHANGED <<adapter, ctxDryRun, entry, form, filledCount, fieldsFailed,
                 resumeSet, submitClicked, runnerVars, laterVars>>

greenhouseApply ==
  \/ navigateToForm("greenhouse")
  \/ fillFormFields("greenhouse")
  \/ uploadResume("greenhouse")
  \/ greenhousePreSubmit
  \/ submitForm("greenhouse")
  \/ detectOutcome("greenhouse")

leverApply ==
  \/ navigateToForm("lever")
  \/ fillFormFields("lever")
  \/ uploadResume("lever")
  \/ leverCustomQuestions
  \/ leverPreSubmit
  \/ submitForm("lever")
  \/ detectOutcome("lever")

(***************************************************************************)
(* Specification of one adapter invocation: any adapter, any page, any     *)
(* dryRun; the runner stands still.                                        *)
(***************************************************************************)
AdapterInit ==
  /\ RunnerInit
  /\ LaterParked
  /\ globalDryRun = FALSE
  /\ adapter \in Adapters
  /\ ctxDryRun \in BOOLEAN
  /\ entry \in {"form", "button_no_form", "nothing"}
  /\ form \in (IF entry = "form" THEN Forms ELSE {<<>>})
  /\ apc = "navigate"
  /\ filledCount = 0
  /\ fieldsFailed = {}
  /\ resumeSet = FALSE
  /\ submitClicked = FALSE
  /\ aThrew = FALSE
  /\ aResult = NoApplyResult

AdapterNext == greenhouseApply \/ leverApply

AdapterSpec == AdapterInit /\ [][AdapterNext]_vars

AdapterTypeOK ==
  /\ form \in Forms \/ \E i \in DOMAIN form : ~IsEmpty(form[i])
  /\ apc \in {"parked", "navigate", "fill", "upload", "custom", "pre_submit",
              "submit", "detect", "returned"}
  /\ filledCount \in 0..(MaxControls + 1)
  /\ fieldsFailed \subseteq DOMAIN form
  /\ aResult.status \in {Null, "succeeded", "dry_run_complete", "needs_input",
                         "blocked", "failed"}

(***************************************************************************)
(* Properties of the adapters                                              *)
(***************************************************************************)
\* apply got past navigateToForm and no exception reached its catch block
FormFound == aResult.errorCode # "FORM_NOT_FOUND" /\ ~aThrew

\* C2: in a real run of either adapter, while a required control is still
\* empty or at its placeholder the submit control is not clicked, and apply
\* returns needs_input.
C2_GateBeforeSubmit ==
  /\ (~ctxDryRun /\ Unresolved(form) # {}) => ~submitClicked
  /\ (apc = "returned" /\ ~ctxDryRun /\ FormFound /\ Unresolved(form) # {})
       => aResult.status = "needs_input"

C24_GateBeforeDryRunExit ==
  (/\ apc = "returned"
   /\ adapter = "greenhouse"
   /\ ctxDryRun
   /\ FormFound
   /\ Unresolved(form) # {})
  => /\ aResult.status = "needs_input"
     /\ aResult.requiredInputs # <<>>

\* C25 (as claimed): when no form materializes in the Navigate step, whether
\* or not an Apply button was clicked, apply goes no further than that step:
\* nothing is filled, uploaded or submitted, and it returns failed with
\* FORM_NOT_FOUND.
C25_NoFormStopsApply ==
  entry # "form"
  => /\ apc \in {"navigate", "returned"}
     /\ filledCount = 0 /\ ~resumeSet /\ ~submitClicked
     /\ (apc = "returned" /\ ~aThrew)
          => (aResult.status = "failed" /\ aResult.errorCode = "FORM_NOT_FOUND")

\* the controls a step has filled
FilledInStep(before, after) ==
  Cardinality({i \in DOMAIN before : after[i] # before[i]})

\* C26 (as claimed): an exception in any step of apply is caught: apply
\* returns failed with ADAPTER_ERROR, and the result keeps the failed fields
\* recorded and counts the fields filled before the exception.
C26_ExceptionBecomesAdapterError ==
  [][(~aThrew /\ aThrew')
     => /\ apc' = "returned"
        /\ aResult'.status = "failed"
        /\ aResult'.errorCode = "ADAPTER_ERROR"
        /\ aResult'.fieldsFailed = fieldsFailed'
        /\ aResult'.fieldsFilledCount >= filledCount + FilledInStep(form, form')]_vars

\* C7: when apply returns needs_input, requiredInputs holds exactly one
\* entry for each unresolved required control and none for any other, and
\* the entry of a <select> lists exactly its options other than the
\* placeholder.
C7_RequiredInputsExact ==
  (apc = "returned" /\ aResult.status = "needs_input")
  => LET ri == aResult.requiredInputs
     IN  /\ \A i \in Unresolved(form) :
              Cardinality({k \in DOMAIN ri : ri[k].fieldName = i}) = 1
         /\ \A k \in DOMAIN ri : ri[k].fieldName \in Unresolved(form)
         /\ \A k \in DOMAIN ri :
              form[ri[k].fieldName].kind = "select"
              => SeqToSet(ri[k].options) = RealOptions(form[ri[k].fieldName])

(***************************************************************************)
(* Part III - applyJob(input): the orchestration around adapter.apply.     *)
(***************************************************************************)
\* the codes detectBlockingCondition returns
PreflightCodes == {"CAPTCHA_DETECTED", "RATE_LIMITED", "ALREADY_APPLIED",
                   "ACCESS_BLOCKED"}

\* the codes classifyError returns
ErrorCodes == {"TIMEOUT", "NETWORK_ERROR", "ELEMENT_NOT_FOUND",
               "SESSION_EXPIRED", "UNKNOWN_ERROR"}

jCfg == <<jSupported, jDryRun, usingBrowserbase, enableArtifacts,
          uploadArtifactsOn>>
jRes == <<context, openContexts, tempResumeDir, resumeDirOnDisk,
          artifactCollector, artifactDirOnDisk>>
jShots == <<collectorShots, adapterShots>>
jRest == <<runnerVars, adapterVars, rateVars, retryVars, poolVars, shutVars, outcomeVars, urlVars, blockVars, fillVars, startVars>>

\* an exception raised inside the try block of applyJob
JThrow ==
  /\ jThrew' = TRUE
  /\ jpc' = "catch"
  /\ UNCHANGED jResult

\* `return { ... }` inside the try or catch block: the finally block is next
JReturn(res) ==
  /\ jResult' = res
  /\ jpc' = "finally"
  /\ UNCHANGED jThrew

JGoto(next) ==
  /\ jpc' = next
  /\ UNCHANGED <<jThrew, jResult>>

\* `if (!adapter)` (mutant first: the test dropped)
unsupportedReturn_off(sup) == FALSE

unsupportedReturn(sup) == ~sup

\* adapters.find(...) and the UNSUPPORTED_ATS return
findAdapter ==
  /\ jpc = "find_adapter"
  /\ IF unsupportedReturn(jSupported)
       THEN JReturn(Res("failed", "UNSUPPORTED_ATS"))
       ELSE JGoto("wait_slot")
  /\ UNCHANGED <<jCfg, jRes, jShots, slotsTaken, gotoCount, preflight, applyInvoked, jOutcome,
                 jRest>>

\* await rateLimiter.waitForSlot(input.jobUrl)
waitForSlotCall ==
  /\ jpc = "wait_slot"
  /\ slotsTaken' = slotsTaken + 1
  /\ JGoto("collector")
  /\ UNCHANGED <<jCfg, jRes, jShots, gotoCount, preflight, applyInvoked, jOutcome,
                 jRest>>

\* `if (WORKER_CONFIG.enableArtifacts) artifactCollector = createArtifactCollector(...)`
createCollector ==
  /\ jpc = "collector"
  /\ \/ /\ enableArtifacts
        /\ artifactCollector' = TRUE
        /\ artifactDirOnDisk' = TRUE
        /\ JGoto("download")
     \/ /\ enableArtifacts
        /\ JThrow
        /\ UNCHANGED <<artifactCollector, artifactDirOnDisk>>
     \/ /\ ~enableArtifacts
        /\ JGoto("download")
        /\ UNCHANGED <<artifactCollector, artifactDirOnDisk>>
  /\ UNCHANGED <<jCfg, context, openContexts, tempResumeDir, resumeDirOnDisk,
                 jShots, slotsTaken, gotoCount, preflight, applyInvoked, jOutcome, jRest>>

\* tempResumeDir = fs.mkdtempSync(...); resumePath = await downloadResume(...)
downloadResumeCall ==
  /\ jpc = "download"
  /\ \/ /\ tempResumeDir' = TRUE
        /\ resumeDirOnDisk' = TRUE
        /\ JGoto("create_context")
     \/ /\ JThrow
        /\ UNCHANGED <<tempResumeDir, resumeDirOnDisk>>
     \/ /\ tempResumeDir' = TRUE
        /\ resumeDirOnDisk' = TRUE
        /\ JThrow
  /\ UNCHANGED <<jCfg, context, openContexts, artifactCollector,
                 artifactDirOnDisk, jShots, slotsTaken, gotoCount, preflight, applyInvoked,
                 jOutcome, jRest>>

\* context = await createContext(): it returns the context, or throws before
\* it made one (cap reached, launch failed), or throws after it made one
\* (addInitScript, local browser only)
createContextCall ==
  /\ jpc = "create_context"
  /\ \/ /\ context' = TRUE
        /\ openContexts' = openContexts + 1
        /\ JGoto("goto")
     \/ /\ JThrow
        /\ UNCHANGED <<context, openContexts>>
     \/ /\ ~usingBrowserbase
        /\ openContexts' = openContexts + 1
        /\ JThrow
        /\ UNCHANGED context
  /\ UNCHANGED <<jCfg, tempResumeDir, resumeDirOnDisk, artifactCollector,
                 artifactDirOnDisk, jShots, slotsTaken, gotoCount, preflight, applyInvoked,
                 jOutcome, jRest>>

\* createPage, page.goto and, with Browserbase, the wait for the page to settle
openPage ==
  /\ jpc = "goto"
  /\ gotoCount' = gotoCount + 1
  /\ \/ JGoto("preflight")
     \/ JThrow
  /\ UNCHANGED <<jCfg, jRes, jShots, slotsTaken, preflight, applyInvoked, jOutcome,
                 jRest>>

\* blockingCondition = await detectBlockingCondition(page) and the branch on it
preflightCheck ==
  /\ jpc = "preflight"
  /\ \E cond \in {Null} \cup PreflightCodes :
       /\ preflight' = cond
       /\ JGoto(IF cond = Null THEN "apply"
                ELSE IF usingBrowserbase /\ cond = "CAPTCHA_DETECTED"
                  THEN "recheck"
                ELSE "blocked")
  /\ UNCHANGED <<jCfg, jRes, jShots, slotsTaken, gotoCount, applyInvoked, jOutcome, jRest>>

\* Browserbase and a CAPTCHA: wait 10 s, detect again, log, go on either way
recheckCaptcha ==
  /\ jpc = "recheck"
  /\ \/ JGoto("apply")
     \/ JThrow
  /\ UNCHANGED <<jCfg, jRes, jShots, slotsTaken, gotoCount, preflight, applyInvoked, jOutcome,
                 jRest>>

\* the blocked branch: artifacts captured and stored, then the return;
\* captureScreenshot writes into the collector's directory, or fails silently
blockedReturn ==
  /\ jpc = "blocked"
  /\ \/ JReturn(Res("blocked", preflight))
     \/ /\ artifactCollector /\ uploadArtifactsOn
        /\ JThrow
  /\ \E shot \in BOOLEAN :
       collectorShots' = (collectorShots \/ (artifactCollector /\ shot))
  /\ UNCHANGED <<jCfg, jRes, adapterShots, slotsTaken, gotoCount, preflight, applyInvoked, jOutcome,
                 jRest>>

\* result = await adapter.apply(applyContext); artifacts stored; return result.
\* The adapter's takeScreenshot writes into os.tmpdir(), or fails silently.
callAdapter ==
  /\ jpc = "apply"
  /\ applyInvoked' = TRUE
  /\ \E shot \in BOOLEAN : adapterShots' = shot
  /\ \/ \E res \in AdapterApplyResults(EffectiveDryRun(jDryRun)) : JReturn(res)
     \/ /\ artifactCollector /\ uploadArtifactsOn
        /\ JThrow
  /\ UNCHANGED <<jCfg, jRes, collectorShots, slotsTaken, gotoCount, preflight,
                 jOutcome, jRest>>

\* the catch block: classifyError, debug package (guarded), failed result
catchBlock ==
  /\ jpc = "catch"
  /\ \E code \in ErrorCodes : JReturn(Res("failed", code))
  /\ \E shot \in BOOLEAN :
       collectorShots' =
         (collectorShots \/ (artifactCollector /\ context /\ shot))
  /\ UNCHANGED <<jCfg, jRes, adapterShots, slotsTaken, gotoCount, preflight, applyInvoked, jOutcome,
                 jRest>>

\* the finally block: context.close(), fs.rmSync(tempResumeDir),
\* cleanupArtifacts(artifactCollector), in this order, the first two unguarded
finallyBlock ==
  /\ jpc = "finally"
  /\ jpc' = "done"
  /\ \/ /\ openContexts' = IF context THEN openContexts - 1 ELSE openContexts
        /\ resumeDirOnDisk' = IF tempResumeDir THEN FALSE ELSE resumeDirOnDisk
        /\ artifactDirOnDisk' =
             IF artifactCollector THEN FALSE ELSE artifactDirOnDisk
        /\ collectorShots' =
             IF artifactCollector THEN FALSE ELSE collectorShots
        /\ jOutcome' = "returned"
     \/ /\ context
        /\ jOutcome' = "rejected"
        /\ UNCHANGED <<openContexts, resumeDirOnDisk, artifactDirOnDisk,
                       collectorShots>>
     \/ /\ tempResumeDir /\ resumeDirOnDisk
        /\ openContexts' = IF context THEN openContexts - 1 ELSE openContexts
        /\ jOutcome' = "rejected"
        /\ UNCHANGED <<resumeDirOnDisk, artifactDirOnDisk, collectorShots>>
  /\ UNCHANGED <<jCfg, adapterShots, context, tempResumeDir, artifactCollector, slotsTaken, gotoCount,
                 preflight, applyInvoked, jThrew, jResult, jRest>>

JobInit ==
  /\ RunnerInit
  /\ StartParked
  /\ FillParked
  /\ BlockParked
  /\ UrlParked
  /\ OutcomeParked
  /\ ShutParked
  /\ AdapterParked
  /\ RateParked
  /\ RetryParked
  /\ PoolParked
  /\ jpc = "find_adapter"
  /\ jSupported \in BOOLEAN
  /\ jDryRun \in BOOLEAN
  /\ usingBrowserbase \in BOOLEAN
  /\ enableArtifacts \in BOOLEAN
  /\ uploadArtifactsOn \in BOOLEAN
  /\ context = FALSE
  /\ openContexts = 0
  /\ tempResumeDir = FALSE
  /\ resumeDirOnDisk = FALSE
  /\ artifactCollector = FALSE
  /\ artifactDirOnDisk = FALSE
  /\ collectorShots = FALSE
  /\ adapterShots = FALSE
  /\ slotsTaken = 0
  /\ gotoCount = 0
  /\ preflight = Null
  /\ applyInvoked = FALSE
  /\ jThrew = FALSE
  /\ jResult = NoResult
  /\ jOutcome = "pending"

JobNext ==
  \/ findAdapter
  \/ waitForSlotCall
  \/ createCollector
  \/ downloadResumeCall
  \/ createContextCall
  \/ openPage
  \/ preflightCheck
  \/ recheckCaptcha
  \/ blockedReturn
  \/ callAdapter
  \/ catchBlock
  \/ finallyBlock

JobSpec == JobInit /\ [][JobNext]_vars

JobTypeOK ==
  /\ openContexts \in 0..1
  /\ slotsTaken \in 0..1
  /\ jOutcome \in {"pending", "returned", "rejected"}
  /\ jResult.status \in {Null, "succeeded", "dry_run_complete", "needs_input",
                         "blocked", "failed"}

(***************************************************************************)
(* Properties of applyJob                                                  *)
(***************************************************************************)
\* C13 (as claimed): when applyJob has terminated, no browser context it
\* created is open and neither temp directory exists.
C13_CleanupOnEveryExit ==
  jpc = "done"
  => /\ openContexts = 0
     /\ ~resumeDirOnDisk
     /\ ~artifactDirOnDisk

\* C14 (as claimed): once the pre-flight check has reported a blocking
\* condition, adapter.apply is not invoked, and an applyJob that terminates
\* without an exception returns blocked with the condition's code.
C14_PreflightBlocks ==
  preflight # Null
  => /\ ~applyInvoked
     /\ (jpc = "done" /\ ~jThrew /\ jOutcome = "returned")
          => jResult = Res("blocked", preflight)

\* C15: for a URL no adapter supports, no step of applyJob creates a browser
\* context, a temp directory or a rate-limiter entry, and applyJob returns
\* failed with UNSUPPORTED_ATS.
C15_UnsupportedAts ==
  /\ [][~jSupported => UNCHANGED <<jRes, slotsTaken>>]_vars
  /\ []((~jSupported /\ jpc = "done")
          => (jOutcome = "returned" /\ jResult = Res("failed", "UNSUPPORTED_ATS")))

\* C15 witness: applyJob has returned UNSUPPORTED_ATS with nothing acquired.
C15_Witness ==
  /\ jpc = "done"
  /\ ~jSupported
  /\ jResult.errorCode = "UNSUPPORTED_ATS"
  /\ slotsTaken = 0
  /\ ~applyInvoked

\* C27 (as claimed): applyJob never rejects: whatever step fails, the
\* cleanup included, it returns a result, and after a failure that result is
\* failed with the classified error code.
C27_ApplyJobNeverThrows ==
  jpc = "done"
  => /\ jOutcome = "returned"
     /\ jThrew => (jResult.status = "failed" /\ jResult.errorCode \in ErrorCodes)

\* the codes of the errors classifyError calls retryable
RetryableCodes == {"TIMEOUT", "NETWORK_ERROR", "ELEMENT_NOT_FOUND"}

\* the exception was raised by createPage / page.goto
ThrewAtNavigation == jThrew /\ context /\ preflight = Null /\ ~applyInvoked

\* C28 (as claimed): a run whose navigation to the job URL failed with a
\* retryable error is reported failed only after the navigation has been
\* tried again.
C28_TransientFailureRetried ==
  (/\ jpc = "done"
   /\ ThrewAtNavigation
   /\ jResult.status = "failed"
   /\ jResult.errorCode \in RetryableCodes)
  => gotoCount > 1

\* C40 (as claimed): when applyJob has returned, no screenshot file written
\* during the call is left on the local disk, neither in the artifact
\* collector's directory nor where the adapter's takeScreenshot writes.
C40_NoScreenshotLeft ==
  jOutcome = "returned" => (~collectorShots /\ ~adapterShots)

(***************************************************************************)
(* Part IV - RateLimiter: waitForSlot calls of one process, against a      *)
(* clock.                                                                  *)
(***************************************************************************)
rRest == <<runnerVars, adapterVars, jobVars, retryVars, poolVars, shutVars, outcomeVars, urlVars, blockVars, fillVars, startVars>>

\* this.domainLimits.get(domain) || this.defaultDelayMs
getLimitForDomain(d) ==
  IF domainLimits[d] = NoLimit \/ domainLimits[d] = 0
    THEN defaultDelayMs
    ELSE domainLimits[d]

\* this.entries.set(domain, {lastRequestAt: Date.now(),
\*                           requestCount: (entry?.requestCount || 0) + 1})
UpdatedEntry(e, t) ==
  [lastRequestAt |-> t, requestCount |-> e.requestCount + 1]

\* time passes
Tick ==
  /\ rNow < MaxTime
  /\ rNow' = rNow + 1
  /\ UNCHANGED <<defaultDelayMs, domainLimits, entries, rpc, rDomain, rWake,
                 rSeen, rReturnedAt, rStarted, rRest>>

\* waitForSlot(url) up to its first suspension: it returns at once when the
\* domain has no entry or its interval has elapsed, else it goes to sleep
waitForSlot(c) ==
  /\ rpc[c] = "idle"
  /\ rStarted < MaxCalls
  /\ rStarted' = rStarted + 1
  /\ \E d \in Domains :
       LET limit == getLimitForDomain(d)
           seen == entries[d]
           elapsed == rNow - seen.lastRequestAt
       IN  /\ rDomain' = [rDomain EXCEPT ![c] = d]
           /\ rSeen' = [rSeen EXCEPT ![c] = seen]
           /\ IF seen # NoEntry /\ elapsed < limit
                THEN /\ rpc' = [rpc EXCEPT ![c] = "sleeping"]
                     /\ rWake' = [rWake EXCEPT ![c] = rNow + (limit - elapsed)]
                     /\ rReturnedAt' = [rReturnedAt EXCEPT ![c] = -1]
                     /\ UNCHANGED entries
                ELSE /\ entries' = [entries EXCEPT ![d] = UpdatedEntry(seen, rNow)]
                     /\ rReturnedAt' = [rReturnedAt EXCEPT ![c] = rNow]
                     /\ UNCHANGED <<rpc, rWake>>
  /\ UNCHANGED <<rNow, defaultDelayMs, domainLimits, rRest>>

\* the sleep is over (not before it is due): the entry is written from the
\* one read before the sleep, and waitForSlot returns
waitForSlotWake(c) ==
  /\ rpc[c] = "sleeping"
  /\ rNow >= rWake[c]
  /\ entries' = [entries EXCEPT ![rDomain[c]] = UpdatedEntry(rSeen[c], rNow)]
  /\ rReturnedAt' = [rReturnedAt EXCEPT ![c] = rNow]
  /\ rpc' = [rpc EXCEPT ![c] = "idle"]
  /\ UNCHANGED <<rNow, defaultDelayMs, domainLimits, rDomain, rWake, rSeen,
                 rStarted, rRest>>

\* setDomainLimit(domain, delayMs): this.domainLimits.set(domain, delayMs)
setDomainLimit(d, ms) ==
  /\ domainLimits[d] # ms
  /\ domainLimits' = [domainLimits EXCEPT ![d] = ms]
  /\ UNCHANGED <<rNow, defaultDelayMs, entries, rpc, rDomain, rWake, rSeen,
                 rReturnedAt, rStarted, rRest>>

\* getStatus(url) for a URL of domain d, at the present time
getStatus(d) ==
  LET limit == getLimitForDomain(d)
      elapsed == rNow - entries[d].lastRequestAt
  IN  IF entries[d] = NoEntry \/ elapsed >= limit
        THEN [canRequest |-> TRUE, waitMs |-> 0]
        ELSE [canRequest |-> FALSE, waitMs |-> limit - elapsed]

\* getStats().totalRequests
RECURSIVE SumRequests(_)
SumRequests(ds) ==
  IF ds = {} THEN 0
  ELSE LET d == CHOOSE x \in ds : TRUE
       IN  entries[d].requestCount + SumRequests(ds \ {d})

totalRequests == SumRequests({d \in Domains : entries[d] # NoEntry})

\* the intervals setDomainLimit is called with
LimitValues == {0, 2}

RateInit ==
  /\ RunnerInit
  /\ StartParked
  /\ FillParked
  /\ BlockParked
  /\ UrlParked
  /\ OutcomeParked
  /\ ShutParked
  /\ AdapterParked
  /\ JobParked
  /\ RetryParked
  /\ PoolParked
  /\ rNow = 0
  /\ defaultDelayMs \in {1, 2}
  /\ domainLimits \in [Domains -> {NoLimit, 2, 3}]
  /\ entries = [d \in Domains |-> NoEntry]
  /\ rpc = [c \in RateCallers |-> "idle"]
  /\ rDomain = [c \in RateCallers |-> "example.com"]
  /\ rWake = [c \in RateCallers |-> 0]
  /\ rSeen = [c \in RateCallers |-> NoEntry]
  /\ rReturnedAt = [c \in RateCallers |-> -1]
  /\ rStarted = 0

RateNext ==
  \/ Tick
  \/ \E c \in RateCallers : waitForSlot(c)
  \/ \E c \in RateCallers : waitForSlotWake(c)
  \/ \E d \in Domains : \E ms \in LimitValues : setDomainLimit(d, ms)

RateSpec == RateInit /\ [][RateNext]_vars

RateTypeOK ==
  /\ rNow \in 0..MaxTime
  /\ rStarted \in 0..MaxCalls
  /\ \A d \in Domains : entries[d].requestCount \in 0..MaxCalls

\* C16 (as claimed): the latest calls of two callers for one domain, both
\* returned, returned at least the domain's interval apart.
C16_CallsSpacedByInterval ==
  \A c1 \in RateCallers : \A c2 \in RateCallers :
    (/\ c1 # c2
     /\ rDomain[c1] = rDomain[c2]
     /\ rReturnedAt[c1] # -1
     /\ rReturnedAt[c2] # -1
     /\ rReturnedAt[c1] <= rReturnedAt[c2])
    => rReturnedAt[c2] - rReturnedAt[c1] >= getLimitForDomain(rDomain[c1])

\* C33 (as claimed): once setDomainLimit(d, ms) was called, ms = 0 included,
\* the minimum interval used for d is ms, never the default nor an earlier
\* override: getStatus for d (which takes its interval from getLimitForDomain
\* as waitForSlot does) says canRequest exactly when ms has elapsed since the
\* entry's request, and else waits for what is left of ms.
C33_StatusUsesOverride ==
  \A d \in Domains :
    (domainLimits[d] \in LimitValues /\ entries[d] # NoEntry)
    => LET ms == domainLimits[d]
           elapsed == rNow - entries[d].lastRequestAt
       IN  getStatus(d) = IF elapsed >= ms
                            THEN [canRequest |-> TRUE, waitMs |-> 0]
                            ELSE [canRequest |-> FALSE, waitMs |-> ms - elapsed]

\* C38 (as claimed): when no waitForSlot call is in flight, whatever the
\* calls that completed (overlapping calls for one domain included),
\* getStats().totalRequests is the number of calls made.
C38_TotalRequestsCountsCalls ==
  (\A c \in RateCallers : rpc[c] = "idle") => totalRequests = rStarted

(***************************************************************************)
(* Part V - withRetry and classifyError.  An error is what classifyError   *)
(* looks at: whether it is a TimeoutError, another Error or some other     *)
(* thrown value, and which of the searched phrases its message holds.      *)
(***************************************************************************)
tRest == <<runnerVars, adapterVars, jobVars, rateVars, poolVars, shutVars, outcomeVars, urlVars, blockVars, fillVars, startVars>>

Phrases == {"network", "waiting for selector", "session"}
Err(kind, msg) == [kind |-> kind, msg |-> msg]
Errors ==
  {Err("TimeoutError", {}), Err("TimeoutError", {"session"}),
   Err("Error", {}), Err("Error", {"network"}),
   Err("Error", {"waiting for selector"}), Err("Error", {"session"}),
   Err("Error", {"network", "session"}), Err("value", {"network"})}
OpOutcomes == {Ok} \cup Errors

Classified(code, retryable, maxRetries) ==
  [code |-> code, retryable |-> retryable, maxRetries |-> maxRetries]

\* the chain of tests of classifyError, in its order
\* (mutant first: a TimeoutError is given the ceiling of a network error)
classifyError_timeoutCeiling(e) ==
  IF e.kind = "TimeoutError" THEN Classified("TIMEOUT", TRUE, 3)
  ELSE IF e.kind = "Error" THEN
    IF "network" \in e.msg THEN Classified("NETWORK_ERROR", TRUE, 3)
    ELSE IF "waiting for selector" \in e.msg
      THEN Classified("ELEMENT_NOT_FOUND", TRUE, 1)
    ELSE IF "session" \in e.msg THEN Classified("SESSION_EXPIRED", FALSE, 0)
    ELSE Classified("UNKNOWN_ERROR", FALSE, 0)
  ELSE Classified("UNKNOWN_ERROR", FALSE, 0)

classifyError(e) ==
  IF e.kind = "TimeoutError" THEN Classified("TIMEOUT", TRUE, 2)
  ELSE IF e.kind = "Error" THEN
    IF "network" \in e.msg THEN Classified("NETWORK_ERROR", TRUE, 3)
    ELSE IF "waiting for selector" \in e.msg
      THEN Classified("ELEMENT_NOT_FOUND", TRUE, 1)
    ELSE IF "session" \in e.msg THEN Classified("SESSION_EXPIRED", FALSE, 0)
    ELSE Classified("UNKNOWN_ERROR", FALSE, 0)
  ELSE Classified("UNKNOWN_ERROR", FALSE, 0)

\* error instanceof Error ? error : new Error(String(error))
AsError(e) == IF e.kind = "value" THEN Err("Error", e.msg) ELSE e

AllFailed == Err("Error", {"All retry attempts failed"})

RECURSIVE Pow(_, _)
Pow(b, n) == IF n = 0 THEN 1 ELSE b * Pow(b, n - 1)

Min(a, b) == IF a <= b THEN a ELSE b

\* Math.min(baseDelayMs * Math.pow(backoffMultiplier, attempt - 1), maxDelayMs)
\* (mutant first: the exponent is the attempt, the first delay is multiplied)
backoffDelay_fromMultiplier(cfg, n) ==
  Min(cfg.baseDelayMs * Pow(cfg.backoffMultiplier, n), cfg.maxDelayMs)

backoffDelay(cfg, n) ==
  Min(cfg.baseDelayMs * Pow(cfg.backoffMultiplier, n - 1), cfg.maxDelayMs)

\* the two `throw lastError` of the catch block
\* (mutant first: the `!classified.retryable` test dropped)
giveUp_onlyPastMaxRetries(classified, n) ==
  classified.retryable /\ n > classified.maxRetries

giveUp(classified, n) ==
  ~classified.retryable \/ n > classified.maxRetries

\* one turn of the loop up to its suspension: operation() is called; its value
\* is returned, or its error is classified and thrown or slept on
withRetryAttempt ==
  /\ tpc = "try"
  /\ attempt <= retryConfig.maxAttempts
  /\ invocations' = invocations + 1
  /\ \E o \in OpOutcomes :
       /\ history' = Append(history, o)
       /\ IF o = Ok
            THEN /\ tpc' = "returned"
                 /\ UNCHANGED <<lastError, sleeps>>
            ELSE /\ lastError' = AsError(o)
                 /\ IF giveUp(classifyError(o), attempt)
                      THEN /\ tpc' = "thrown"
                           /\ UNCHANGED sleeps
                      ELSE /\ tpc' = "sleeping"
                           /\ sleeps' = Append(sleeps, backoffDelay(retryConfig, attempt))
  /\ UNCHANGED <<retryConfig, attempt, tRest>>

\* sleep(delay) is over: attempt++
withRetrySleepDone ==
  /\ tpc = "sleeping"
  /\ tpc' = "try"
  /\ attempt' = attempt + 1
  /\ UNCHANGED <<retryConfig, lastError, invocations, sleeps, history, tRest>>

\* the loop is over: throw lastError || new Error('All retry attempts failed')
withRetryExhausted ==
  /\ tpc = "try"
  /\ attempt > retryConfig.maxAttempts
  /\ tpc' = "thrown"
  /\ lastError' = IF lastError = NoError THEN AllFailed ELSE lastError
  /\ UNCHANGED <<retryConfig, attempt, invocations, sleeps, history, tRest>>

RetryConfigs ==
  [maxAttempts : 0..MaxAttempts, baseDelayMs : {1, 2}, maxDelayMs : {1, 3},
   backoffMultiplier : {1, 2}]

RetryInit ==
  /\ RunnerInit
  /\ StartParked
  /\ FillParked
  /\ BlockParked
  /\ UrlParked
  /\ OutcomeParked
  /\ ShutParked
  /\ AdapterParked
  /\ JobParked
  /\ RateParked
  /\ PoolParked
  /\ tpc = "try"
  /\ retryConfig \in RetryConfigs
  /\ attempt = 1
  /\ lastError = NoError
  /\ invocations = 0
  /\ sleeps = <<>>
  /\ history = <<>>

RetryNext ==
  \/ withRetryAttempt
  \/ withRetrySleepDone
  \/ withRetryExhausted

RetrySpec == RetryInit /\ [][RetryNext]_vars

RetryTypeOK ==
  /\ tpc \in {"try", "sleeping", "returned", "thrown"}
  /\ attempt \in 1..(MaxAttempts + 1)
  /\ invocations = Len(history)
  /\ Len(sleeps) <= invocations

\* retryable, with room for two retries
RetryableTwice(o) ==
  o # Ok /\ classifyError(o).retryable /\ classifyError(o).maxRetries >= 2

C18_NonRetryableThrowsAtOnce ==
  (/\ Len(history) >= 1
   /\ history[1] # Ok
   /\ ~classifyError(history[1]).retryable)
  => /\ tpc = "thrown"
     /\ invocations = 1
     /\ sleeps = <<>>
     /\ lastError = AsError(history[1])

\* a SESSION_EXPIRED error thrown on, with attempts to spare
C18_Witness ==
  /\ tpc = "thrown"
  /\ retryConfig.maxAttempts = MaxAttempts
  /\ Len(history) = 1
  /\ history[1] # Ok
  /\ classifyError(history[1]).code = "SESSION_EXPIRED"

\* the retry ceilings of the retryable categories
Ceiling(code) ==
  CASE code = "NETWORK_ERROR" -> 3
    [] code = "TIMEOUT" -> 2
    [] code = "ELEMENT_NOT_FOUND" -> 1

\* every call of operation() so far failed, with one retryable category
AlwaysFailsWith(code) ==
  /\ Len(history) >= 1
  /\ \A i \in DOMAIN history :
       history[i] # Ok /\ classifyError(history[i]).code = code

\* C29: when operation() fails every time with the same retryable category,
\* withRetry calls it at most min(maxAttempts, ceiling + 1) times, with the
\* category's ceiling (NETWORK 3, TIMEOUT 2, ELEMENT_NOT_FOUND 1), and what
\* it throws in the end is the error of the last call.
C29_BoundedInvocations ==
  \A code \in RetryableCodes :
    AlwaysFailsWith(code)
    => /\ invocations <= Min(retryConfig.maxAttempts, Ceiling(code) + 1)
       /\ tpc # "returned"
       /\ tpc = "thrown" => lastError = AsError(history[Len(history)])

\* three timeouts in a row with attempts to spare: the ceiling stops the loop
C29_Witness ==
  /\ tpc = "thrown"
  /\ AlwaysFailsWith("TIMEOUT")
  /\ invocations = 3
  /\ retryConfig.maxAttempts = 4
  /\ history[1] # history[3]

\* C37 (as claimed): withRetry never sleeps without retrying: when it has
\* returned or thrown after calling operation(), the sleeps it made are one
\* fewer than the calls, also when every one of the maxAttempts calls failed.
C37_SleepsBetweenCallsOnly ==
  (tpc \in {"returned", "thrown"} /\ invocations >= 1)
  => Len(sleeps) = invocations - 1

(***************************************************************************)
(* Part VI - the browser context pool of playwright.ts: createContext      *)
(* calls of one process, each suspended at its awaits.                     *)
(***************************************************************************)
pRest == <<runnerVars, adapterVars, jobVars, rateVars, retryVars, shutVars, outcomeVars, urlVars, blockVars, fillVars, startVars>>

\* contextCount < BROWSER_CONFIG.maxConcurrentContexts
canCreateContext == contextCount < MaxContexts

\* contextCount++ for a context that now exists
CountContext ==
  /\ liveContexts' = liveContexts + 1
  /\ contextCount' = contextCount + 1

\* createContext() up to `await launchBrowser()`: at the cap it throws
createContextBegin(c) ==
  /\ cpc[c] = "idle"
  /\ cpc' = [cpc EXCEPT ![c] = IF canCreateContext THEN "launching" ELSE "rejected"]
  /\ UNCHANGED <<contextCount, liveContexts, localBrowser, useBrowserbase, pRest>>

\* the rejection reaches the caller
createContextRejected(c) ==
  /\ cpc[c] = "rejected"
  /\ cpc' = [cpc EXCEPT ![c] = "idle"]
  /\ UNCHANGED <<contextCount, liveContexts, localBrowser, useBrowserbase, pRest>>

\* launchBrowser() resolves or rejects.  On Browserbase the new session's
\* default context, when there is one, is counted and returned; otherwise
\* createContext goes on to `await b.newContext(...)`
launchBrowserDone(c) ==
  /\ cpc[c] = "launching"
  /\ \/ /\ cpc' = [cpc EXCEPT ![c] = "idle"]
        /\ UNCHANGED <<contextCount, liveContexts, localBrowser>>
     \/ /\ useBrowserbase
        /\ CountContext
        /\ cpc' = [cpc EXCEPT ![c] = "holding"]
        /\ UNCHANGED localBrowser
     \/ /\ cpc' = [cpc EXCEPT ![c] = "creating"]
        /\ localBrowser' = (localBrowser \/ ~useBrowserbase)
        /\ UNCHANGED <<contextCount, liveContexts>>
  /\ UNCHANGED <<useBrowserbase, pRest>>

\* b.newContext(...) resolves or rejects; the context is counted
newContextDone(c) ==
  /\ cpc[c] = "creating"
  /\ \/ /\ cpc' = [cpc EXCEPT ![c] = "idle"]
        /\ UNCHANGED <<contextCount, liveContexts>>
     \/ /\ CountContext
        /\ cpc' = [cpc EXCEPT ![c] = IF useBrowserbase THEN "holding" ELSE "initScript"]
  /\ UNCHANGED <<localBrowser, useBrowserbase, pRest>>

\* context.addInitScript(...) resolves, or rejects with the context left open
addInitScriptDone(c) ==
  /\ cpc[c] = "initScript"
  /\ \E ok \in BOOLEAN : cpc' = [cpc EXCEPT ![c] = IF ok THEN "holding" ELSE "idle"]
  /\ UNCHANGED <<contextCount, liveContexts, localBrowser, useBrowserbase, pRest>>

\* the caller closes its context; the 'close' listener counts down
closeContext(c) ==
  /\ cpc[c] = "holding"
  /\ cpc' = [cpc EXCEPT ![c] = "idle"]
  /\ liveContexts' = liveContexts - 1
  /\ contextCount' = IF contextCount - 1 > 0 THEN contextCount - 1 ELSE 0
  /\ UNCHANGED <<localBrowser, useBrowserbase, pRest>>

PoolInit ==
  /\ RunnerInit
  /\ StartParked
  /\ FillParked
  /\ BlockParked
  /\ UrlParked
  /\ OutcomeParked
  /\ ShutParked
  /\ AdapterParked
  /\ JobParked
  /\ RateParked
  /\ RetryParked
  /\ contextCount = 0
  /\ liveContexts = 0
  /\ localBrowser = FALSE
  /\ useBrowserbase \in BOOLEAN
  /\ cpc = [c \in PoolCallers |-> "idle"]

PoolNext ==
  \E c \in PoolCallers :
    \/ createContextBegin(c)
    \/ createContextRejected(c)
    \/ launchBrowserDone(c)
    \/ newContextDone(c)
    \/ addInitScriptDone(c)
    \/ closeContext(c)

PoolSpec == PoolInit /\ [][PoolNext]_vars

PoolTypeOK ==
  /\ contextCount \in 0..(2 * MaxContexts)
  /\ liveContexts = contextCount
  /\ \A c \in PoolCallers :
       cpc[c] \in {"idle", "rejected", "launching", "creating", "initScript", "holding"}

\* C19 (as claimed): never more than BROWSER_CONFIG.maxConcurrentContexts
\* contexts are open at once, whatever createContext calls are in flight, and
\* a createContext call made at the cap throws at once instead of waiting.
C19_ContextCap ==
  /\ [](liveContexts <= MaxContexts)
  /\ [][\A c \in PoolCallers :
          (cpc[c] = "idle" /\ cpc'[c] # "idle" /\ ~canCreateContext)
          => cpc'[c] = "rejected"]_vars

(***************************************************************************)
(* Part VII - shutdown: the handler setupShutdownHandlers registers, next  *)
(* to main()'s polling loop in the same process.  The loop's claim and run *)
(* are reduced to their effect on the queue and on the browser; the        *)
(* browser state is that of Part VI.                                       *)
(***************************************************************************)
sRest == <<runnerVars, adapterVars, jobVars, rateVars, retryVars, cpc, outcomeVars, urlVars, blockVars, fillVars, startVars>>

Running == spc # "exited"

\* a browser is open: the local Chromium, or a Browserbase session's context
BrowserOpen == localBrowser \/ liveContexts > 0

\* claimRun's select: a queued run is found or not
mainPoll ==
  /\ Running
  /\ mpc = "poll"
  /\ mpc' = IF queued > 0 THEN "claiming" ELSE "sleeping"
  /\ UNCHANGED <<signalled, spc, queued, contextCount, liveContexts,
                 localBrowser, useBrowserbase, sRest>>

\* claimRun's conditional update: the run is claimed; processRun starts
mainClaim ==
  /\ Running
  /\ mpc = "claiming"
  /\ queued' = queued - 1
  /\ mpc' = "open"
  /\ UNCHANGED <<signalled, spc, contextCount, liveContexts, localBrowser,
                 useBrowserbase, sRest>>

\* applyJob's createContext(): the browser is launched (or the local one is
\* reused) and a context opened; or it throws and the run ends
mainOpen ==
  /\ Running
  /\ mpc = "open"
  /\ \/ /\ canCreateContext
        /\ CountContext
        /\ localBrowser' = (localBrowser \/ ~useBrowserbase)
        /\ mpc' = "processing"
     \/ /\ mpc' = "sleeping"
        /\ UNCHANGED <<contextCount, liveContexts, localBrowser>>
  /\ UNCHANGED <<signalled, spc, queued, useBrowserbase, sRest>>

\* applyJob's finally: context.close(); main() goes to its poll sleep
mainFinish ==
  /\ Running
  /\ mpc = "processing"
  /\ liveContexts' = IF liveContexts > 0 THEN liveContexts - 1 ELSE 0
  /\ contextCount' = IF contextCount > 0 THEN contextCount - 1 ELSE 0
  /\ mpc' = "sleeping"
  /\ UNCHANGED <<signalled, spc, queued, localBrowser, useBrowserbase, sRest>>

\* the poll interval is over
mainWake ==
  /\ Running
  /\ mpc = "sleeping"
  /\ mpc' = "poll"
  /\ UNCHANGED <<signalled, spc, queued, contextCount, liveContexts,
                 localBrowser, useBrowserbase, sRest>>

\* SIGTERM or SIGINT: `shutdown` runs up to its first await that suspends,
\* `localBrowser.close()` when there is a local browser, else the cleanup
signal ==
  /\ Running
  /\ ~signalled
  /\ signalled' = TRUE
  /\ spc' = IF localBrowser THEN "closing" ELSE "cleanup"
  /\ UNCHANGED <<mpc, queued, contextCount, liveContexts, localBrowser,
                 useBrowserbase, sRest>>

\* closeBrowser(): localBrowser.close() has resolved
closeBrowser ==
  /\ spc = "closing"
  /\ localBrowser' = FALSE
  /\ contextCount' = 0
  /\ liveContexts' = 0
  /\ spc' = "cleanup"
  /\ UNCHANGED <<signalled, mpc, queued, useBrowserbase, sRest>>

\* additionalCleanup() (stopHealthServer) has resolved: process.exit(0)
shutdownExit ==
  /\ spc = "cleanup"
  /\ spc' = "exited"
  /\ UNCHANGED <<signalled, mpc, queued, contextCount, liveContexts,
                 localBrowser, useBrowserbase, sRest>>

ShutInit ==
  /\ RunnerInit
  /\ StartParked
  /\ FillParked
  /\ BlockParked
  /\ UrlParked
  /\ OutcomeParked
  /\ AdapterParked
  /\ JobParked
  /\ RateParked
  /\ RetryParked
  /\ signalled = FALSE
  /\ spc = "none"
  /\ mpc = "poll"
  /\ queued \in 0..MaxQueued
  /\ contextCount = 0
  /\ liveContexts = 0
  /\ localBrowser = FALSE
  /\ useBrowserbase \in BOOLEAN
  /\ cpc = [c \in PoolCallers |-> "idle"]

ShutNext ==
  \/ mainPoll
  \/ mainClaim
  \/ mainOpen
  \/ mainFinish
  \/ mainWake
  \/ signal
  \/ closeBrowser
  \/ shutdownExit

ShutSpec == ShutInit /\ [][ShutNext]_vars

ShutTypeOK ==
  /\ spc \in {"none", "closing", "cleanup", "exited"}
  /\ mpc \in {"poll", "claiming", "open", "processing", "sleeping"}
  /\ queued \in 0..MaxQueued
  /\ signalled = (spc # "none")

\* C20 (as claimed): once SIGTERM or SIGINT has been received the worker
\* claims no further run, and when the process exits no browser is open.
C20_ShutdownStopsClaims ==
  /\ [][signalled => queued' = queued]_vars
  /\ [](spc = "exited" => ~BrowserOpen)

(***************************************************************************)
(* Part VIII - detectOutcome of either adapter, over the pages a submit    *)
(* can lead to.  A page is the phrases its body text holds, the elements   *)
(* with an error-like class in document order, and whether its URL is a    *)
(* confirmation one.                                                       *)
(***************************************************************************)
oRest == <<runnerVars, adapterVars, jobVars, rateVars, retryVars, poolVars, shutVars, urlVars, blockVars, fillVars, startVars>>

TextPhrases == {"success_phrase", "you_have_applied", "already_applied", "captcha"}

\* an element is: of a class both selectors name and without text ("empty")
\* or with text ("text"), or of a class that only contains "error", with
\* text ("classText")
ElementKinds == {"empty", "text", "classText"}

RECURSIVE SeqsUpTo(_, _)
SeqsUpTo(S, n) ==
  IF n = 0 THEN {<<>>}
  ELSE LET shorter == SeqsUpTo(S, n - 1)
       IN  shorter \cup {Append(q, x) : q \in shorter, x \in S}

Pages ==
  [text : SUBSET TextPhrases, els : SeqsUpTo(ElementKinds, MaxErrorEls),
   confirmUrl : BOOLEAN]

\* page.$$(selector): Greenhouse adds [class*="error"] to the class list
Matches(a, kind) == a = "greenhouse" \/ kind # "classText"

RECURSIVE Selected(_, _)
Selected(a, els) ==
  IF els = <<>> THEN <<>>
  ELSE IF Matches(a, Head(els)) THEN <<Head(els)>> \o Selected(a, Tail(els))
  ELSE Selected(a, Tail(els))

\* errorElements.slice(0, 3)
FirstThree(els) == SubSeq(els, 1, IF Len(els) < 3 THEN Len(els) ELSE 3)

\* what detectOutcome gets to see of the page
Observed(a, pg) ==
  LET read == FirstThree(Selected(a, pg.els))
  IN  pg.text
      \cup (IF \E i \in DOMAIN read : read[i] = "text" THEN {"error_element"} ELSE {})
      \cup (IF \E i \in DOMAIN read : read[i] = "classText" THEN {"error_class"} ELSE {})
      \cup (IF pg.confirmUrl THEN {"confirm_url"} ELSE {})

\* detectOutcome(ctx, ...) as a whole
detectOutcomeOf ==
  /\ opc = "page"
  /\ opc' = "detected"
  /\ oResult' = IF oAdapter = "greenhouse"
                  THEN greenhouseDetectOutcome(Observed(oAdapter, oPage))
                  ELSE leverDetectOutcome(Observed(oAdapter, oPage))
  /\ UNCHANGED <<oAdapter, oPage, oRest>>

OutcomeInit ==
  /\ RunnerInit
  /\ StartParked
  /\ FillParked
  /\ BlockParked
  /\ UrlParked
  /\ AdapterParked
  /\ JobParked
  /\ RateParked
  /\ RetryParked
  /\ PoolParked
  /\ ShutParked
  /\ oAdapter \in Adapters
  /\ oPage \in Pages
  /\ opc = "page"
  /\ oResult = [status |-> "succeeded", errorCode |-> Null]

OutcomeNext == detectOutcomeOf

OutcomeSpec == OutcomeInit /\ [][OutcomeNext]_vars

\* the phrases the adapter takes for a submitted application
SuccessPhrases(a) ==
  IF a = "greenhouse" THEN {"success_phrase", "you_have_applied"}
                      ELSE {"success_phrase"}

\* C21 (as claimed): whenever the page text read after the submit contains
\* "already applied", detectOutcome returns blocked with ALREADY_APPLIED.
C21_AlreadyAppliedBlocks ==
  (opc = "detected" /\ "already_applied" \in oPage.text)
  => oResult = Outcome("blocked", "ALREADY_APPLIED")

\* C21 (amended): whenever the page text read after the submit contains
\* "already applied" and none of the adapter's success phrases, detectOutcome
\* returns blocked with ALREADY_APPLIED.
C21_AlreadyAppliedBlocksUnlessSuccess ==
  (/\ opc = "detected"
   /\ "already_applied" \in oPage.text
   /\ oPage.text \cap SuccessPhrases(oAdapter) = {})
  => oResult = Outcome("blocked", "ALREADY_APPLIED")

\* "already applied" on a page that also shows an error text and a CAPTCHA
\* phrase, detected as ALREADY_APPLIED
C21_Witness ==
  /\ opc = "detected"
  /\ "already_applied" \in oPage.text
  /\ "captcha" \in oPage.text
  /\ Len(oPage.els) > 0
  /\ oPage.els[1] = "text"
  /\ oResult = Outcome("blocked", "ALREADY_APPLIED")

\* detectOutcome of the adapter that was not asked
otherAdapter(a) == IF a = "greenhouse" THEN "lever" ELSE "greenhouse"

detectOutcomeBy(a, pg) ==
  IF a = "greenhouse" THEN greenhouseDetectOutcome(Observed(a, pg))
                      ELSE leverDetectOutcome(Observed(a, pg))

\* C39 (as claimed): on one page state after the submit (text, error
\* elements, URL) the two adapters detect the same status and errorCode: what
\* one adapter returned is what the other returns for that page.
C39_AdaptersAgree ==
  opc = "detected" => oResult = detectOutcomeBy(otherAdapter(oAdapter), oPage)

(***************************************************************************)
(* Part IX - normalizeUrl (web app).  A URL is what `new URL(url)` makes   *)
(* of it: its host, its pathname as characters ("/" or a letter), its      *)
(* search parameters' names in order, and whether it has a fragment; or a  *)
(* string that does not parse.                                             *)
(***************************************************************************)
uRest == <<runnerVars, adapterVars, jobVars, rateVars, retryVars, poolVars, shutVars, outcomeVars, blockVars, fillVars, startVars>>

TRACKING_PARAMS == {"utm_source", "ref", "gclid"}
ParamNames == TRACKING_PARAMS \cup {"id", "page"}
Hosts == {"Jobs.Example.com", "jobs.example.com"}

\* pathnames: "/" followed by up to MaxPathLen - 1 characters
Pathnames == {<<"/">> \o q : q \in SeqsUpTo({"/", "a"}, MaxPathLen - 1)}

Urls ==
  [valid : BOOLEAN, host : Hosts, pathname : Pathnames,
   query : SeqsUpTo(ParamNames, MaxParams), hash : BOOLEAN]

toLowerCase(h) == IF h = "Jobs.Example.com" THEN "jobs.example.com" ELSE h

IsKept(name) == name \notin TRACKING_PARAMS

\* if (pathname.length > 1 && pathname.endsWith('/')) pathname = pathname.slice(0, -1)
stripTrailingSlash(p) ==
  IF Len(p) > 1 /\ p[Len(p)] = "/" THEN SubSeq(p, 1, Len(p) - 1) ELSE p

\* normalizeUrl(url); a string `new URL` rejects is returned as it is
normalizeUrl(u) ==
  IF ~u.valid THEN u
  ELSE [valid |-> TRUE,
        host |-> toLowerCase(u.host),
        pathname |-> stripTrailingSlash(u.pathname),
        query |-> SelectSeq(u.query, IsKept),
        hash |-> FALSE]

normalizeFirst ==
  /\ upc = "input"
  /\ once' = normalizeUrl(url)
  /\ upc' = "once"
  /\ UNCHANGED <<url, twice, uRest>>

normalizeAgain ==
  /\ upc = "once"
  /\ twice' = normalizeUrl(once)
  /\ upc' = "twice"
  /\ UNCHANGED <<url, once, uRest>>

UrlInit ==
  /\ RunnerInit
  /\ StartParked
  /\ FillParked
  /\ BlockParked
  /\ AdapterParked
  /\ JobParked
  /\ RateParked
  /\ RetryParked
  /\ PoolParked
  /\ ShutParked
  /\ OutcomeParked
  /\ url \in Urls
  /\ once = url
  /\ twice = url
  /\ upc = "input"

UrlNext == normalizeFirst \/ normalizeAgain

UrlSpec == UrlInit /\ [][UrlNext]_vars

\* C22 (as claimed): for every URL, normalizing the normalized URL changes
\* nothing (also for paths ending in several slashes), the normalized URL has
\* none of the tracking parameters, and its other parameters are the URL's,
\* in their order.
C22_NormalizeIdempotent ==
  (upc = "twice" /\ url.valid)
  => /\ twice = once
     /\ \A i \in DOMAIN once.query : once.query[i] \notin TRACKING_PARAMS
     /\ once.query = SelectSeq(url.query, IsKept)

\* the phrases the adapter takes for an application made before
AlreadyAppliedPhrases(a) ==
  IF a = "greenhouse" THEN {"already_applied"}
                      ELSE {"already_applied", "you_have_applied"}

\* the page has an element the adapter's error selector matches, with text
HasErrorText(a, pg) ==
  \E i \in DOMAIN pg.els : Matches(a, pg.els[i]) /\ pg.els[i] # "empty"

\* C23 (as claimed): the outcome is decided by the first of these that the
\* page shows: a success phrase (succeeded), an already-applied phrase
\* (blocked, ALREADY_APPLIED), a validation-error element with text (failed,
\* VALIDATION_ERROR), a CAPTCHA phrase (blocked, CAPTCHA_DETECTED), a
\* confirmation URL (succeeded); with none of them it is succeeded.  The
\* status is always succeeded, blocked or failed.
C23_OutcomePriority ==
  opc = "detected"
  => /\ oResult.status \in {"succeeded", "blocked", "failed"}
     /\ oResult =
          IF oPage.text \cap SuccessPhrases(oAdapter) # {}
            THEN Outcome("succeeded", Null)
          ELSE IF oPage.text \cap AlreadyAppliedPhrases(oAdapter) # {}
            THEN Outcome("blocked", "ALREADY_APPLIED")
          ELSE IF HasErrorText(oAdapter, oPage)
            THEN Outcome("failed", "VALIDATION_ERROR")
          ELSE IF "captcha" \in oPage.text
            THEN Outcome("blocked", "CAPTCHA_DETECTED")
          ELSE Outcome("succeeded", Null)

(***************************************************************************)
(* Part X - detectBlockingCondition, over the pages applyJob can land on.  *)
(***************************************************************************)
bRest == <<runnerVars, adapterVars, jobVars, rateVars, retryVars, poolVars, shutVars, outcomeVars, urlVars, fillVars, startVars>>

\* what a page can hold:
\*   captcha_element  a visible reCAPTCHA iframe or div, or a captcha
\*                    overlay, modal or container that is rendered
\*   captcha_hidden   an element whose class holds "captcha-overlay" or
\*                    "captcha-modal", or whose id holds "captcha-container",
\*                    present in the document but not rendered
\*   captcha_script   a script tag that refers to recaptcha
\*   captcha_word     the word "captcha" or "recaptcha" in the body text
\*   challenge_text   "verify you are human", "security check", ...
\*   rate_limit_text  "rate limit", "too many requests", ...
\*   applied_text     "already applied", "you have applied", ...
\*   denied_text      "access denied", "blocked", "forbidden"
\*   blocked_url      the URL contains "blocked"
BlockSignals == {"captcha_element", "captcha_hidden", "captcha_script",
                 "captcha_word", "challenge_text", "rate_limit_text",
                 "applied_text", "denied_text", "blocked_url"}

Condition(category, code, retryable, maxRetries) ==
  [category |-> category, code |-> code, retryable |-> retryable,
   maxRetries |-> maxRetries]

\* the chain of tests of detectBlockingCondition, in its order; null when a
\* page query rejects.  The two reCAPTCHA selectors test the style or
\* :visible; the overlay selector tests class and id only, so it matches an
\* element that is not rendered as well.
detectBlockingCondition(pg, throws) ==
  IF throws THEN NoCondition
  ELSE IF pg \cap {"captcha_element", "captcha_hidden", "challenge_text"} # {}
    THEN Condition("CAPTCHA", "CAPTCHA_DETECTED", FALSE, 0)
  ELSE IF "rate_limit_text" \in pg
    THEN Condition("RATE_LIMITED", "RATE_LIMITED", TRUE, 1)
  ELSE IF "applied_text" \in pg
    THEN Condition("ALREADY_APPLIED", "ALREADY_APPLIED", FALSE, 0)
  ELSE IF pg \cap {"denied_text", "blocked_url"} # {}
    THEN Condition("RATE_LIMITED", "ACCESS_BLOCKED", FALSE, 0)
  ELSE NoCondition

detectBlocking ==
  /\ bpc = "page"
  /\ bpc' = "detected"
  /\ bResult' = detectBlockingCondition(bPage, bThrows)
  /\ UNCHANGED <<bPage, bThrows, bRest>>

BlockInit ==
  /\ RunnerInit
  /\ StartParked
  /\ FillParked
  /\ AdapterParked
  /\ JobParked
  /\ RateParked
  /\ RetryParked
  /\ PoolParked
  /\ ShutParked
  /\ OutcomeParked
  /\ UrlParked
  /\ bPage \in SUBSET BlockSignals
  /\ bThrows \in BOOLEAN
  /\ bpc = "page"
  /\ bResult = NoCondition

BlockNext == detectBlocking

BlockSpec == BlockInit /\ [][BlockNext]_vars

\* C30 (as claimed): every condition detectBlockingCondition returns
\* (CAPTCHA, rate limiting, already applied, access denied) is not retryable
\* and has maxRetries 0.
C30_BlockingNotRetryable ==
  (bpc = "detected" /\ bResult # NoCondition)
  => /\ bResult.code \in PreflightCodes
     /\ ~bResult.retryable
     /\ bResult.maxRetries = 0

\* the code of the condition returned, "none" for null
BlockCode == IF bResult = NoCondition THEN "none" ELSE bResult.code

\* C32 (as claimed): detectBlockingCondition reports CAPTCHA only when a
\* visibly rendered challenge element or an explicit challenge phrase is
\* present (a script reference, the bare word captcha, or anything else that
\* is not rendered yields no CAPTCHA error), and when several conditions hold
\* the priority is CAPTCHA, rate limit, already applied, access denied.
C32_CaptchaOnlyWhenVisible ==
  (bpc = "detected" /\ ~bThrows)
  => LET challenge == bPage \cap {"captcha_element", "challenge_text"} # {}
         denied == bPage \cap {"denied_text", "blocked_url"} # {}
     IN  /\ BlockCode = "CAPTCHA_DETECTED" <=> challenge
         /\ ("rate_limit_text" \in bPage /\ ~challenge)
              => BlockCode = "RATE_LIMITED"
         /\ ("applied_text" \in bPage /\ ~challenge
               /\ "rate_limit_text" \notin bPage)
              => BlockCode = "ALREADY_APPLIED"
         /\ (denied /\ ~challenge
               /\ bPage \cap {"rate_limit_text", "applied_text"} = {})
              => BlockCode = "ACCESS_BLOCKED"

(***************************************************************************)
(* Part XI - the loop over the static fields in fillFormFields (the same   *)
(* in both adapters): per field, whether the profile has a value, whether  *)
(* findElement finds an element, whether the fill rejects.                 *)
(***************************************************************************)
fRest == <<runnerVars, adapterVars, jobVars, rateVars, retryVars, poolVars, shutVars, outcomeVars, urlVars, blockVars, startVars>>

\* one turn of `for (const field of fields)`
fillStaticField ==
  /\ fIdx <= NumFields
  /\ fIdx' = fIdx + 1
  /\ IF fIdx \notin fValue
       THEN UNCHANGED <<fCounted, fFilled, fFailed, fAttempted>>
       ELSE /\ fAttempted' = fAttempted \cup {fIdx}
            /\ IF fIdx \notin fElement
                 THEN UNCHANGED <<fCounted, fFilled, fFailed>>
               ELSE IF fIdx \in fFillThrows
                 THEN /\ fFailed' = fFailed \cup {fIdx}
                      /\ UNCHANGED <<fCounted, fFilled>>
               ELSE /\ fCounted' = fCounted \cup {fIdx}
                    /\ fFilled' = fFilled + 1
                    /\ UNCHANGED fFailed
  /\ UNCHANGED <<fValue, fElement, fFillThrows, fRest>>

FillInit ==
  /\ RunnerInit
  /\ StartParked
  /\ AdapterParked
  /\ JobParked
  /\ RateParked
  /\ RetryParked
  /\ PoolParked
  /\ ShutParked
  /\ OutcomeParked
  /\ UrlParked
  /\ BlockParked
  /\ fValue \in SUBSET StaticFields
  /\ fElement \in SUBSET StaticFields
  /\ fFillThrows \in SUBSET fElement
  /\ fIdx = 1
  /\ fCounted = {}
  /\ fFilled = 0
  /\ fFailed = {}
  /\ fAttempted = {}

FillNext == fillStaticField

FillSpec == FillInit /\ [][FillNext]_vars

\* C31 (as claimed): when the loop is over, every static field with a
\* non-empty profile value was attempted and is accounted for exactly once:
\* counted in the fields filled, or recorded in fieldsFailed (also when no
\* selector of it matches an element); the count is that of the fields filled.
C31_StaticFieldsAccounted ==
  fIdx = NumFields + 1
  => /\ fValue \subseteq fAttempted
     /\ fFilled = Cardinality(fCounted)
     /\ \A f \in fValue : (f \in fCounted) # (f \in fFailed)

(***************************************************************************)
(* Further properties of the runner and of POST /api/runs/start.           *)
(***************************************************************************)
\* C34 (as claimed): whenever a task is running, its job target has the
\* status applying (the job goes new, queued, applying, then a final status).
C34_RunningMeansApplying ==
  \A r \in DOMAIN runs :
    runs[r].status = "running" => jobs[runs[r].job_target_id].status = "applying"

\* C35 (as claimed): a row that processRun has persisted as succeeded is not
\* changed to failed by a later step of that processRun, its catch block
\* included.
C35_SucceededStays ==
  [][\A r \in DOMAIN runs :
       runs[r].status = "succeeded" => runs'[r].status # "failed"]_vars

(***************************************************************************)
(* Part XII - run-start requests for one job target: the job page open in  *)
(* several tabs, each with its ApplyButton, and the handler of             *)
(* POST /api/runs/start step by step.                                      *)
(***************************************************************************)
kRest == <<globalDryRun, webPc, webJob, workerVars, adapterVars, jobVars, rateVars, retryVars, poolVars, shutVars, outcomeVars, urlVars, blockVars, fillVars>>

\* the job target of the page (the jobId prop, the request's jobTargetId)
TheJob == CHOOSE j \in JobIds : TRUE

\* const canApply = ['new', 'failed'].includes(status)
canApply(t) == tabStatus[t] \in {"new", "failed"}

\* a click on the button: handleApply up to the fetch
handleApply(t) ==
  /\ reqPc[t] = "none"
  /\ canApply(t)
  /\ ~tabLoading[t]
  /\ tabError' = [tabError EXCEPT ![t] = FALSE]
  /\ tabLoading' = [tabLoading EXCEPT ![t] = TRUE]
  /\ reqPc' = [reqPc EXCEPT ![t] = "verify"]
  /\ UNCHANGED <<tabStatus, runs, jobs, kRest>>

\* the route: user, job of the user, primary resume; 401/404/400 or on
routeVerify(t) ==
  /\ reqPc[t] = "verify"
  /\ \/ reqPc' = [reqPc EXCEPT ![t] = "insert"]
     \/ reqPc' = [reqPc EXCEPT ![t] = "error"]
  /\ UNCHANGED <<tabStatus, tabLoading, tabError, runs, jobs, kRest>>

\* the route: insert into application_runs (status queued); 500 on runError
routeInsert(t) ==
  /\ reqPc[t] = "insert"
  /\ \/ /\ Len(runs) < MaxStarts
        /\ \E dry \in BOOLEAN : runs' = Append(runs, NewRun(TheJob, dry))
        /\ reqPc' = [reqPc EXCEPT ![t] = "update_job"]
     \/ /\ reqPc' = [reqPc EXCEPT ![t] = "error"]
        /\ UNCHANGED runs
  /\ UNCHANGED <<tabStatus, tabLoading, tabError, jobs, kRest>>

\* the route: update job_targets set status = queued, then the run is
\* returned; 500 from the catch block when the call throws
routeUpdateJob(t) ==
  /\ reqPc[t] = "update_job"
  /\ \/ /\ jobs' = [jobs EXCEPT ![TheJob].status = "queued"]
        /\ reqPc' = [reqPc EXCEPT ![t] = "ok"]
     \/ /\ reqPc' = [reqPc EXCEPT ![t] = "error"]
        /\ UNCHANGED jobs
  /\ UNCHANGED <<tabStatus, tabLoading, tabError, runs, kRest>>

\* handleApply after the fetch: router.refresh() renders the button with the
\* job's present status, or the error is shown; finally setLoading(false)
handleResponse(t) ==
  /\ reqPc[t] \in {"ok", "error"}
  /\ IF reqPc[t] = "ok"
       THEN /\ tabStatus' = [tabStatus EXCEPT ![t] = jobs[TheJob].status]
            /\ UNCHANGED tabError
       ELSE /\ tabError' = [tabError EXCEPT ![t] = TRUE]
            /\ UNCHANGED tabStatus
  /\ tabLoading' = [tabLoading EXCEPT ![t] = FALSE]
  /\ reqPc' = [reqPc EXCEPT ![t] = "none"]
  /\ UNCHANGED <<runs, jobs, kRest>>

StartInit ==
  /\ RunnerInit
  /\ AdapterParked
  /\ JobParked
  /\ RateParked
  /\ RetryParked
  /\ PoolParked
  /\ ShutParked
  /\ OutcomeParked
  /\ UrlParked
  /\ BlockParked
  /\ FillParked
  /\ StartParked

StartNext ==
  \E t \in Tabs :
    \/ handleApply(t)
    \/ routeVerify(t)
    \/ routeInsert(t)
    \/ routeUpdateJob(t)
    \/ handleResponse(t)

StartSpec == StartInit /\ [][StartNext]_vars

\* C36 (as claimed): whatever the run-start requests made, a job target has
\* at most one task that is queued or running.
C36_OneActiveRunPerJob ==
  \A j \in JobIds :
    Cardinality({r \in DOMAIN runs :
                   /\ runs[r].job_target_id = j
                   /\ runs[r].status \in {"queued", "running"}}) <= 1

====
